---- MODULE Spec2Model ----
(***************************************************************************)
(* EnterpriseOpsAgent: the HTTP layer (analyze / explain-hypothesis /      *)
(* predict), the orchestration pipeline and the agents it calls, with the  *)
(* process-wide state they share: LATEST_RESULT, the KB vector-store       *)
(* singleton and the in-memory KB embedding cache.                         *)
(*                                                                         *)
(* Scores are held in hundredths (round(x, 2) of the source), a message is *)
(* held as the set of hypothesis categories one of whose keywords occurs   *)
(* in it, and every call of the external model / embedding service is a    *)
(* nondeterministic choice over what the service can answer.               *)
(***************************************************************************)
EXTENDS Integers, Sequences, FiniteSets, TLC

\* ------------------------------------------------------------------ bounds
MaxRequests == 3      \* HTTP requests accepted in one run of the process
MaxKB == 2            \* JSON files in backend/kb/incidents
MaxText == 4          \* tokens in one raw model reply (refinement checks)
MaxHyps == 3          \* hypotheses in one list (calibration checks)
FloatBits == 3        \* significand bits of the binary floating-point format
MaxRefined == 2       \* hypotheses in one refined list (contrastive checks)
MaxEvents == 10       \* events in one timeline (calibration checks)
MaxTotal == 20        \* rows of one table (phase checks)
MaxTimeline == 4      \* events in one timeline (explanation checks)
MaxSignals == 8       \* events in one timeline (rule-based scoring checks)

\* ---------------------------------------------------------------- helpers
Range(s) == {s[i] : i \in DOMAIN s}

Front(s) == SubSeq(s, 1, Len(s) - 1)

Last(s) == s[Len(s)]

SeqsUpTo(S, n) == UNION {[1..k -> S] : k \in 0..n}

\* the element of a set of one element
The(S) == CHOOSE x \in S : TRUE

HypIds == <<"H1", "H2", "H3", "H4", "H5">>

\* round(num/den, digits) with scale = 10^digits, in units of 1/scale: the
\* nearest one, the even one at a tie
RoundDec(num, den, scale) ==
    IF 2 * ((num * scale) % den) < den THEN (num * scale) \div den
    ELSE IF 2 * ((num * scale) % den) > den THEN (num * scale) \div den + 1
    ELSE (num * scale) \div den + (((num * scale) \div den) % 2)

\* the value Python calls None, where a string is expected
None == "None"

\* pandas' NaT: what to_datetime(errors="coerce") gives an unparseable stamp
NaT == -1

\* ------------------------------------------------- ingestion_agent.py
\* An uploaded file: whether pandas can read it, its columns, and its rows.
\* A row holds its parsed timestamp (NaT when it does not parse), whether the
\* message cell is a string (an empty cell is read as a float NaN), and the
\* categories whose keywords the message contains.
Row(ts, isStr, kw) == [ts |-> ts, msgIsStr |-> isStr, kw |-> kw]

Upload(readable, columns, rows) ==
    [readable |-> readable, columns |-> columns, rows |-> rows]

RequiredColumns == {"timestamp", "message"}

\* df.sort_values("timestamp"): insertion of each row behind the rows that
\* are not later than it
InsertByTime(sorted, r) ==
    LET k == Cardinality({i \in DOMAIN sorted : sorted[i].ts <= r.ts})
    IN  SubSeq(sorted, 1, k) \o <<r>> \o SubSeq(sorted, k + 1, Len(sorted))

RECURSIVE SortByTime(_)
SortByTime(rows) ==
    IF rows = <<>> THEN <<>>
    ELSE InsertByTime(SortByTime(Front(rows)), Last(rows))

\* df.dropna(subset=["timestamp"])
DropNaT(rows) == SelectSeq(rows, LAMBDA r : r.ts # NaT)

\* index / total < tenths / 10. The quotient is a float and so are 0.2 and
\* 0.8; for every number of rows a table can have, the float quotient lies on
\* the same side of them as the exact ratio, which is what is compared here.
RatioBelow(index, total, tenths) == 10 * index < tenths * total

\* the mutant of assign_phase: a ratio of exactly 0.2 is still detection
assign_phase_inclusive(index, total) ==
    IF total = 0 THEN "unknown"
    ELSE IF 10 * index <= 2 * total THEN "detection"
    ELSE IF RatioBelow(index, total, 8) THEN "mitigation"
    ELSE "resolution"

assign_phase(index, total) ==
    IF total = 0 THEN "unknown"
    ELSE IF RatioBelow(index, total, 2) THEN "detection"
    ELSE IF RatioBelow(index, total, 8) THEN "mitigation"
    ELSE "resolution"

\* str.lower() on the words and sources of the checks
Lower(w) ==
    CASE w = "ALERT" -> "alert"
      [] w = "Customer" -> "customer"
      [] w = "API" -> "api"
      [] OTHER -> w

\* needle in w, for a lower-case word w
Occurs(needle, w) ==
    \/ needle = w
    \/ needle = "scal" /\ w = "autoscaling"

\* needle in message.lower(), the message being the set of its words
InMessage(needle, message) == \E w \in message : Occurs(needle, Lower(w))

\* the mutant of classify_event: the error rule comes before the warning rule
classify_event_error_first(message, source, level) ==
    IF InMessage("alert", message) \/ level = "critical" THEN "alert"
    ELSE IF InMessage("error", message) \/ level = "error" THEN "error"
    ELSE IF InMessage("warning", message) THEN "warning"
    ELSE IF InMessage("customer", message) THEN "customer"
    ELSE IF InMessage("restart", message) \/ InMessage("scal", message) THEN "infra"
    ELSE IF source # "" THEN Lower(source) ELSE "unknown"

classify_event(message, source, level) ==
    IF InMessage("alert", message) \/ level = "critical" THEN "alert"
    ELSE IF InMessage("warning", message) THEN "warning"
    ELSE IF InMessage("error", message) \/ level = "error" THEN "error"
    ELSE IF InMessage("customer", message) THEN "customer"
    ELSE IF InMessage("restart", message) \/ InMessage("scal", message) THEN "infra"
    ELSE IF source # "" THEN Lower(source) ELSE "unknown"

\* the mutant of build_timeline_from_dataframe: only the timestamp column is
\* required
build_timeline_timestamp_only(up) ==
    IF ~({"timestamp"} \subseteq up.columns)
    THEN [raised |-> "ValueError", events |-> <<>>]
    ELSE [raised |-> None,
          events |-> [i \in DOMAIN SortByTime(DropNaT(up.rows)) |->
                        [time |-> SortByTime(DropNaT(up.rows))[i].ts,
                         kw |-> SortByTime(DropNaT(up.rows))[i].kw,
                         phase |-> assign_phase(i - 1, Len(DropNaT(up.rows)))]]]

\* the mutant of build_timeline_from_dataframe: the rows are not sorted
build_timeline_unsorted(up) ==
    IF ~(RequiredColumns \subseteq up.columns)
    THEN [raised |-> "ValueError", events |-> <<>>]
    ELSE LET kept == DropNaT(up.rows)
         IN  IF \E i \in DOMAIN kept : ~kept[i].msgIsStr
             THEN [raised |-> "AttributeError", events |-> <<>>]
             ELSE [raised |-> None,
                   events |-> [i \in DOMAIN kept |->
                                 [time |-> kept[i].ts, kw |-> kept[i].kw,
                                  phase |-> assign_phase(i - 1, Len(kept))]]]

\* build_timeline_from_dataframe: "ValueError" when a required column is
\* missing, "AttributeError" when classify_event is handed a non-string
\* message, otherwise the events in time order
build_timeline_from_dataframe(up) ==
    IF ~(RequiredColumns \subseteq up.columns)
    THEN [raised |-> "ValueError", events |-> <<>>]
    ELSE LET kept == SortByTime(DropNaT(up.rows))
         IN  IF \E i \in DOMAIN kept : ~kept[i].msgIsStr
             THEN [raised |-> "AttributeError", events |-> <<>>]
             ELSE [raised |-> None,
                   events |-> [i \in DOMAIN kept |->
                                 [time |-> kept[i].ts, kw |-> kept[i].kw,
                                  phase |-> assign_phase(i - 1, Len(kept))]]]

\* ------------------------------------------------- root_cause_agent.py
\* hits / len(events) as a fraction, 0.0 for no events
_score_keyword_signals(events, cat) ==
    IF events = <<>> THEN [num |-> 0, den |-> 1]
    ELSE [num |-> Cardinality({i \in DOMAIN events : cat \in events[i].kw}),
          den |-> Len(events)]

\* round(score, 2), in hundredths
RoundedScore(score) == RoundDec(score.num, score.den, 100)

Hyp(id, score) == [id |-> id, score |-> score]

\* the title of the hypothesis with this id
Title(id) == <<"title", id>>

\* hypotheses.sort(key=score, reverse=True): stable
InsertByScore(sorted, h) ==
    LET k == Cardinality({i \in DOMAIN sorted : sorted[i].score >= h.score})
    IN  SubSeq(sorted, 1, k) \o <<h>> \o SubSeq(sorted, k + 1, Len(sorted))

RECURSIVE SortByScoreDesc(_)
SortByScoreDesc(hs) ==
    IF hs = <<>> THEN <<>>
    ELSE InsertByScore(SortByScoreDesc(Front(hs)), Last(hs))

\* the mutant of generate_rule_based_hypotheses: the list is not sorted
rule_based_unsorted(events) ==
    [i \in DOMAIN HypIds |->
       Hyp(HypIds[i], RoundedScore(_score_keyword_signals(events, HypIds[i])))]

generate_rule_based_hypotheses(events) ==
    SortByScoreDesc([i \in DOMAIN HypIds |->
                       Hyp(HypIds[i],
                           RoundedScore(_score_keyword_signals(events, HypIds[i])))])

\* max(hs, key=score): the first hypothesis holding the maximum score
ArgMaxFirst(hs) ==
    CHOOSE i \in DOMAIN hs :
        /\ \A j \in DOMAIN hs : hs[j].score <= hs[i].score
        /\ \A j \in 1..(i - 1) : hs[j].score < hs[i].score

cause_category_map(id) ==
    CASE id = "H1" -> "performance"
      [] id = "H2" -> "dependency"
      [] id = "H3" -> "deployment"
      [] id = "H4" -> "infra"
      [] id = "H5" -> "customer-impact"
      [] OTHER -> "unknown"

Severity(max_score) ==
    IF max_score >= 80 THEN "critical"
    ELSE IF max_score >= 50 THEN "high"
    ELSE IF max_score > 0 THEN "medium"
    ELSE "low"

\* max(hs, key=score) taken from the end: the last hypothesis holding the
\* maximum score
ArgMaxLast(hs) ==
    CHOOSE i \in DOMAIN hs :
        /\ \A j \in DOMAIN hs : hs[j].score <= hs[i].score
        /\ \A j \in (i + 1)..Len(hs) : hs[j].score < hs[i].score

SummaryOf(primary) ==
    [severity |-> Severity(primary.score),
     primary_cause_id |-> primary.id,
     primary_cause_title |-> Title(primary.id),
     primary_cause_category |-> cause_category_map(primary.id),
     confidence |-> primary.score]

NoSummary ==
    [severity |-> "unknown", primary_cause_id |-> None,
     primary_cause_title |-> None, primary_cause_category |-> None,
     confidence |-> 0]

\* the mutant of _infer_incident_summary: ties go to the last hypothesis
summary_of_last_max(refined) ==
    IF refined = <<>> THEN NoSummary
    ELSE SummaryOf(refined[ArgMaxLast(refined)])

\* _infer_incident_summary; the confidence is in hundredths
_infer_incident_summary(refined) ==
    IF refined = <<>> THEN NoSummary
    ELSE SummaryOf(refined[ArgMaxFirst(refined)])

\* the mutant of _build_recommended_actions: the category action is left out
\* when the confidence is below 0.5
recommended_actions_by_confidence(summary) ==
    LET category == summary.primary_cause_category
        first == CASE category = "dependency" -> <<"A1">>
                   [] category = "infra" -> <<"A2">>
                   [] category = "deployment" -> <<"A3">>
                   [] category = "performance" -> <<"A4">>
                   [] OTHER -> <<>>
    IN  IF "confidence" \in DOMAIN summary /\ summary.confidence < 50
        THEN <<"A5", "A6">>
        ELSE first \o <<"A5", "A6">>

_build_recommended_actions(summary) ==
    LET category == summary.primary_cause_category
        first == CASE category = "dependency" -> <<"A1">>
                   [] category = "infra" -> <<"A2">>
                   [] category = "deployment" -> <<"A3">>
                   [] category = "performance" -> <<"A4">>
                   [] OTHER -> <<>>
    IN  first \o <<"A5", "A6">>

\* ------------------------------- root_cause_agent.py: _build_timeline_story
\* [e for e in events if e.get("phase") == phase_name]
PhaseEvents(events, phase_name) ==
    SelectSeq(events, LAMBDA e : e.phase = phase_name)

\* the three sentences of _summarise_phase, by what they are built from
NoEventsSentence(phase_name) ==
    [text |-> "No explicit <phase> events recorded.", phase |-> phase_name]

StartedSentence(phase_name, first) ==
    [text |-> "<Phase> phase: started at <time> with <message>.",
     phase |-> phase_name, first_time |-> first.time, first_msg |-> first.kw]

FromToSentence(phase_name, first, last) ==
    [text |-> "<Phase> phase: from <time> to <time>. Started with <message> and ended with <message>.",
     phase |-> phase_name, first_time |-> first.time, first_msg |-> first.kw,
     last_time |-> last.time, last_msg |-> last.kw]

\* the empty string
EmptySentence == [text |-> ""]

\* _summarise_phase: "first is last" holds exactly for a list of one event
_summarise_phase(phase_events, phase_name) ==
    IF phase_events = <<>> THEN NoEventsSentence(phase_name)
    ELSE IF Len(phase_events) = 1 THEN StartedSentence(phase_name, phase_events[1])
    ELSE FromToSentence(phase_name, phase_events[1], Last(phase_events))

Story(detection, mitigation, resolution, total, n_det, n_mit, n_res) ==
    [detection |-> detection, mitigation |-> mitigation, resolution |-> resolution,
     counts |-> [total |-> total, detection |-> n_det, mitigation |-> n_mit,
                 resolution |-> n_res]]

StoryOf(events, d, m, r) ==
    Story(_summarise_phase(d, "detection"), _summarise_phase(m, "mitigation"),
          _summarise_phase(r, "resolution"), Len(events), Len(d), Len(m), Len(r))

\* the mutant of _build_timeline_story: the total counts the events of the
\* three phases
timeline_story_total_of_phases(events) ==
    IF events = <<>>
    THEN Story(EmptySentence, EmptySentence, EmptySentence, 0, 0, 0, 0)
    ELSE StoryOf(SelectSeq(events, LAMBDA e : e.phase \in {"detection", "mitigation", "resolution"}),
                 PhaseEvents(events, "detection"),
                 PhaseEvents(events, "mitigation"),
                 PhaseEvents(events, "resolution"))

_build_timeline_story(events) ==
    IF events = <<>>
    THEN Story(EmptySentence, EmptySentence, EmptySentence, 0, 0, 0, 0)
    ELSE StoryOf(events, PhaseEvents(events, "detection"),
                 PhaseEvents(events, "mitigation"),
                 PhaseEvents(events, "resolution"))

\* ------------------------------------------------------ gemini_agent.py
\* A raw model reply is a sequence of tokens: a brace, a stretch of prose
\* (any text without braces that is no JSON member), or one JSON member.
\* The "refined" member carries the rule-based list as it is, that list
\* reversed, an empty list, or a string instead of a list.
RefinedTokens == {"refined:same", "refined:rev", "refined:empty", "refined:str"}

MemberTokens == RefinedTokens \cup {"commentary"}

Tokens == {"{", "}", "prose"} \cup MemberTokens

\* one call of model.generate_content: it raises, or it answers a text
Reply(fails, text) == [fails |-> fails, text |-> text]

Reverse(s) == [i \in DOMAIN s |-> s[Len(s) + 1 - i]]

\* re.search(r"\{[\s\S]*\}", text): greedy, from the first "{" to the last "}"
JsonMatch(text) ==
    LET opens == {i \in DOMAIN text : text[i] = "{"}
        first == CHOOSE i \in opens : \A j \in opens : i <= j
        closes == {i \in DOMAIN text : text[i] = "}" /\ i > first}
        last == CHOOSE i \in closes : \A j \in closes : j <= i
    IN  IF opens = {} THEN <<>>
        ELSE IF closes = {} THEN <<>>
        ELSE SubSeq(text, first, last)

\* json.loads of the matched text: an object of members, or a decode error
JsonLoads(m) ==
    LET inner == SubSeq(m, 2, Len(m) - 1)
        refs == {i \in DOMAIN inner : inner[i] \in RefinedTokens}
        lastRef == CHOOSE i \in refs : \A j \in refs : j <= i
    IN  IF \E i \in DOMAIN inner : inner[i] \notin MemberTokens
        THEN [ok |-> FALSE, refined |-> None, commentary |-> FALSE]
        ELSE [ok |-> TRUE,
              refined |-> IF refs = {} THEN None ELSE inner[lastRef],
              commentary |-> "commentary" \in Range(inner)]

\* _extract_json: "ValueError" when nothing matches, "JSONDecodeError" when
\* the match does not load
_extract_json(text) ==
    LET m == JsonMatch(text)
    IN  IF m = <<>> THEN [raised |-> "ValueError", data |-> JsonLoads(<<>>)]
        ELSE IF ~JsonLoads(m).ok
             THEN [raised |-> "JSONDecodeError", data |-> JsonLoads(m)]
             ELSE [raised |-> None, data |-> JsonLoads(m)]

RefinedValue(token, rule_based) ==
    CASE token = "refined:same" -> rule_based
      [] token = "refined:rev" -> Reverse(rule_based)
      [] OTHER -> <<>>

Refined(raised, hyps, commentary) ==
    [raised |-> raised, hyps |-> hyps, commentary |-> commentary]

\* the mutant of refine_root_cause_with_gemini: _get_model's error and the
\* errors of the guarded block escape
refine_uncaught(rule_based, key, reply) ==
    IF rule_based = <<>> THEN Refined(None, rule_based, "No hypotheses provided.")
    ELSE IF ~key THEN Refined("RuntimeError", <<>>, "")
    ELSE IF reply.fails THEN Refined("Exception", <<>>, "")
    ELSE LET x == _extract_json(reply.text)
         IN  IF x.raised # None THEN Refined(x.raised, <<>>, "")
             ELSE IF x.data.refined = None
                  THEN Refined(None, rule_based,
                               IF x.data.commentary THEN "llm commentary" ELSE "")
             ELSE IF x.data.refined = "refined:str"
                  THEN Refined(None, rule_based, "Invalid refined format.")
             ELSE Refined(None, RefinedValue(x.data.refined, rule_based),
                          IF x.data.commentary THEN "llm commentary" ELSE "")

refine_root_cause_with_gemini(rule_based, key, reply) ==
    IF rule_based = <<>> THEN Refined(None, rule_based, "No hypotheses provided.")
    ELSE IF ~key THEN Refined(None, rule_based, "Gemini not configured")
    ELSE IF reply.fails THEN Refined(None, rule_based, "Gemini exception occurred")
    ELSE LET x == _extract_json(reply.text)
         IN  IF x.raised # None
             THEN Refined(None, rule_based, "Gemini exception occurred")
             ELSE IF x.data.refined = None
                  THEN Refined(None, rule_based,
                               IF x.data.commentary THEN "llm commentary" ELSE "")
             ELSE IF x.data.refined = "refined:str"
                  THEN Refined(None, rule_based, "Invalid refined format.")
             ELSE Refined(None, RefinedValue(x.data.refined, rule_based),
                          IF x.data.commentary THEN "llm commentary" ELSE "")

\* ------------------------------------ the generation calls' outcomes
\* what one generate_content call can do: answer a text, answer an empty
\* text, or raise
GenOutcomes == {"text", "empty", "error"}

Said(raised, text) == [raised |-> raised, text |-> text]

\* ------------------------------------------------- contrastive_agent.py
\* the mutant of generate_contrastive_explanations: the configuration check
\* comes first
contrastive_config_first(refined, key, gen) ==
    IF ~key THEN Said("RuntimeError", "")
    ELSE IF refined = <<>>
         THEN Said(None, "No hypotheses available for contrastive explanation.")
    ELSE IF gen = "error" THEN Said(None, "Contrastive explanation error")
    ELSE IF gen = "empty" THEN Said(None, "Contrastive explanation generation failed.")
    ELSE Said(None, "contrastive text")

generate_contrastive_explanations(refined, key, gen) ==
    IF refined = <<>>
    THEN Said(None, "No hypotheses available for contrastive explanation.")
    ELSE IF ~key THEN Said("RuntimeError", "")
    ELSE IF gen = "error" THEN Said(None, "Contrastive explanation error")
    ELSE IF gen = "empty" THEN Said(None, "Contrastive explanation generation failed.")
    ELSE Said(None, "contrastive text")

\* --------------------------------------------------- narrative_agent.py
generate_incident_narrative(key, gen) ==
    IF ~key THEN Said("RuntimeError", "")
    ELSE IF gen = "error" THEN Said(None, "Narrative generation error")
    ELSE IF gen = "empty" THEN Said(None, "Narrative generation failed.")
    ELSE Said(None, "narrative text")

\* ------------------------------------------------ causal_graph_agent.py
HasId(hs, id) == \E i \in DOMAIN hs : hs[i].id = id

\* the mutant of _build_deterministic_chain: the primary cause always comes
\* first
chain_primary_first(refined, summary) ==
    LET primary_id == summary.primary_cause_id
        canon == SelectSeq(<<"H2", "H1", "H4", "H5">>,
                           LAMBDA id : HasId(refined, id) /\ id # primary_id)
        chain_order == <<primary_id>> \o canon
    IN  IF ~HasId(refined, primary_id)
        THEN [root_cause |-> None, root_cause_id |-> None, cascade |-> <<>>]
        ELSE [root_cause |-> Title(primary_id), root_cause_id |-> primary_id,
              cascade |-> [i \in DOMAIN chain_order |->
                             [hypothesis_id |-> chain_order[i],
                              caused_by |-> IF i > 1 THEN chain_order[i - 1]
                                            ELSE None]]]

_build_deterministic_chain(refined, summary) ==
    LET primary_id == summary.primary_cause_id
        canon == SelectSeq(<<"H2", "H1", "H4", "H5">>, LAMBDA id : HasId(refined, id))
        chain_order == IF primary_id \in Range(canon) THEN canon
                       ELSE <<primary_id>> \o canon
    IN  IF ~HasId(refined, primary_id)
        THEN [root_cause |-> None, root_cause_id |-> None, cascade |-> <<>>]
        ELSE [root_cause |-> Title(primary_id), root_cause_id |-> primary_id,
              cascade |-> [i \in DOMAIN chain_order |->
                             [hypothesis_id |-> chain_order[i],
                              caused_by |-> IF i > 1 THEN chain_order[i - 1]
                                            ELSE None]]]

_build_llm_summary(key, gen) ==
    IF ~key THEN "Causal graph summary not available"
    ELSE IF gen = "error" THEN "Causal graph summary error"
    ELSE IF gen = "empty" THEN "Causal graph summary generation failed."
    ELSE "causal text"

build_causal_graph(refined, summary, key, gen) ==
    [chain |-> _build_deterministic_chain(refined, summary),
     llm_summary |-> _build_llm_summary(key, gen)]

\* --------------------------------------------------- embedding_agent.py
\* what one genai.embed_content call can do: answer a vector, or fail (the
\* call raises, or its answer has no list of values)
EmbedOutcomes == {"ok", "fail"}

\* get_text_embedding raises unless the key is set and the call answers
get_text_embedding(key, out) ==
    IF ~key THEN "RuntimeError"
    ELSE IF out = "fail" THEN "Exception"
    ELSE None

\* ------------------------------------------------------ vector_store.py
\* An IncidentVectorStore object: its identity, whether _embeddings is set,
\* and _metadata (the KB documents, by number). Identity 0 is Python's None.
Store(oid, hasEmbeddings, metadata) ==
    [oid |-> oid, hasEmbeddings |-> hasEmbeddings, metadata |-> metadata]

NoStore == Store(0, FALSE, <<>>)

is_built(store) == store.hasEmbeddings /\ Len(store.metadata) > 0

\* build_from_kb over kb_files documents, the embedding of document failAt
\* failing (0: none fails). The fields are assigned only after the loop.
build_from_kb(store, kb_files, key, failAt) ==
    LET calls == IF kb_files = 0 THEN 0
                 ELSE IF ~key THEN 1
                 ELSE IF failAt \in 1..kb_files THEN failAt
                 ELSE kb_files
    IN  IF kb_files = 0
        THEN [raised |-> "RuntimeError", store |-> store, embeds |-> calls]
        ELSE IF ~key \/ failAt \in 1..kb_files
             THEN [raised |-> get_text_embedding(key, "fail"), store |-> store,
                   embeds |-> calls]
             ELSE [raised |-> None,
                   store |-> Store(store.oid, TRUE, [i \in 1..kb_files |-> i]),
                   embeds |-> calls]

\* the mutant of get_global_incident_store: the singleton is not consulted
get_store_always_builds(global, newOid, kb_files, key, failAt) ==
    LET b == build_from_kb(Store(newOid, FALSE, <<>>), kb_files, key, failAt)
    IN  IF b.raised # None
        THEN [raised |-> b.raised, store |-> NoStore, global |-> global,
              builds |-> 1, embeds |-> b.embeds]
        ELSE [raised |-> None, store |-> b.store, global |-> b.store,
              builds |-> 1, embeds |-> b.embeds]

\* the mutant of get_global_incident_store: the singleton is assigned before
\* the store is built
get_store_assigns_first(global, newOid, kb_files, key, failAt) ==
    IF global.oid # 0 /\ is_built(global)
    THEN [raised |-> None, store |-> global, global |-> global,
          builds |-> 0, embeds |-> 0]
    ELSE LET b == build_from_kb(Store(newOid, FALSE, <<>>), kb_files, key, failAt)
         IN  IF b.raised # None
             THEN [raised |-> b.raised, store |-> NoStore, global |-> b.store,
                   builds |-> 1, embeds |-> b.embeds]
             ELSE [raised |-> None, store |-> b.store, global |-> b.store,
                   builds |-> 1, embeds |-> b.embeds]

\* get_global_incident_store: the store it returns, the singleton afterwards,
\* and the builds and KB embedding calls it made
get_global_incident_store(global, newOid, kb_files, key, failAt) ==
    IF global.oid # 0 /\ is_built(global)
    THEN [raised |-> None, store |-> global, global |-> global,
          builds |-> 0, embeds |-> 0]
    ELSE LET b == build_from_kb(Store(newOid, FALSE, <<>>), kb_files, key, failAt)
         IN  IF b.raised # None
             THEN [raised |-> b.raised, store |-> NoStore, global |-> global,
                   builds |-> 1, embeds |-> b.embeds]
             ELSE [raised |-> None, store |-> b.store, global |-> b.store,
                   builds |-> 1, embeds |-> b.embeds]

Min(a, b) == IF a <= b THEN a ELSE b

\* A cosine similarity is a whole number of 1/CosUnit; float32 arithmetic can
\* leave it a little outside [-1, 1].
CosUnit == 4000

CosValues == {-CosUnit - 4, -1, 1, CosUnit + 3}

\* the cosines of the query with n documents, all of them v
Sims(n, v) == [i \in 1..n |-> v]

\* one (score, meta) tuple
Match(score, meta) == [score |-> score, meta |-> meta]

\* one step of a stable sort by descending similarity: the item goes behind
\* the items whose similarity is not lower
InsertBySim(sorted, sims, item) ==
    LET k == Cardinality({j \in DOMAIN sorted : sims[sorted[j]] >= sims[item]})
    IN  SubSeq(sorted, 1, k) \o <<item>> \o SubSeq(sorted, k + 1, Len(sorted))

\* np.argsort(-sims) and scored.sort(reverse=True) on the listed documents
RECURSIVE SortBySimDesc(_, _)
SortBySimDesc(items, sims) ==
    IF items = <<>> THEN <<>>
    ELSE InsertBySim(SortBySimDesc(Front(items), sims), sims, Last(items))

\* one step of a sort by ascending similarity
InsertBySimAsc(sorted, sims, item) ==
    LET k == Cardinality({j \in DOMAIN sorted : sims[sorted[j]] <= sims[item]})
    IN  SubSeq(sorted, 1, k) \o <<item>> \o SubSeq(sorted, k + 1, Len(sorted))

RECURSIVE SortBySimAsc(_, _)
SortBySimAsc(items, sims) ==
    IF items = <<>> THEN <<>>
    ELSE InsertBySimAsc(SortBySimAsc(Front(items), sims), sims, Last(items))

\* idx_sorted[:top_k] with top_k >= 0, and the tuples of those documents
TopMatches(idx_sorted, sims, top_k) ==
    [i \in 1..Min(top_k, Len(idx_sorted)) |-> Match(sims[idx_sorted[i]], idx_sorted[i])]

\* the mutant of search: np.argsort(sims)
search_ascending(store, sims, top_k) ==
    IF ~is_built(store) THEN [raised |-> "RuntimeError", matches |-> <<>>]
    ELSE [raised |-> None,
          matches |-> TopMatches(SortBySimAsc(store.metadata, sims), sims, top_k)]

\* IncidentVectorStore.search: "RuntimeError" on a store that is not built,
\* otherwise the top_k documents by descending cosine
search(store, sims, top_k) ==
    IF ~is_built(store) THEN [raised |-> "RuntimeError", matches |-> <<>>]
    ELSE [raised |-> None,
          matches |-> TopMatches(SortBySimDesc(store.metadata, sims), sims, top_k)]

\* -------------------------------------------- similar_incident_agent.py
Similar(raised, results, g) ==
    [raised |-> raised, results |-> results, global |-> g.global,
     store |-> g.store, called |-> g.called, builds |-> g.builds,
     embeds |-> g.embeds]

NoGet(global) ==
    [global |-> global, store |-> NoStore, called |-> FALSE, builds |-> 0,
     embeds |-> 0]

\* the result entry of a match: the cosine clipped to [-1, 1], scaled to
\* [0, 1] and rounded to thousandths
SimilarEntry(match) ==
    LET clipped == IF match.score > CosUnit THEN CosUnit
                   ELSE IF match.score < -CosUnit THEN -CosUnit ELSE match.score
    IN  [id |-> match.meta,
         similarity |-> RoundDec(clipped + CosUnit, 2 * CosUnit, 1000)]

SimilarResults(matches) == [i \in DOMAIN matches |-> SimilarEntry(matches[i])]

\* find_similar_incidents of the vector-store path, sims being the cosines of
\* the query with the KB documents
find_similar_incidents(events, top_k, global, newOid, kb_files, key, qOut, failAt, sims) ==
    IF events = <<>> THEN Similar(None, <<>>, NoGet(global))
    ELSE IF get_text_embedding(key, qOut) # None
         THEN Similar(get_text_embedding(key, qOut), <<>>, NoGet(global))
    ELSE LET g == get_global_incident_store(global, newOid, kb_files, key, failAt)
             got == [global |-> g.global, store |-> g.store, called |-> TRUE,
                     builds |-> g.builds, embeds |-> g.embeds]
         IN  IF g.raised # None THEN Similar(g.raised, <<>>, got)
             ELSE IF search(g.store, sims, top_k).raised # None
                  THEN Similar(search(g.store, sims, top_k).raised, <<>>, got)
             ELSE Similar(None,
                          SimilarResults(search(g.store, sims, top_k).matches), got)

\* --------------------------------------------------- calibration_agent.py
\* Python floats are binary floating point, rounded to nearest, ties to even.
\* The format here has FloatBits significand bits; a value is written as the
\* integer number of units of 1/One, so One is 1.0. Below One/2 the values one
\* unit apart are representable, from One/2 to One those two units apart, and
\* the distance doubles with every further doubling of the value.
RECURSIVE Pow2(_)
Pow2(n) == IF n = 0 THEN 1 ELSE 2 * Pow2(n - 1)

One == Pow2(FloatBits + 1)

Floats == {x \in 0..One : x < One \div 2 \/ x % 2 = 0}

Abs(x) == IF x < 0 THEN -x ELSE x

\* the distance from the float at or below q to the next one
RECURSIVE Ulp(_)
Ulp(q) == IF q < One \div 2 THEN 1 ELSE 2 * Ulp(q \div 2)

EvenSignificand(f) == (f \div Ulp(f)) % 2 = 0

\* the float nearest to num/den (den > 0, num >= 0): lo and hi are the
\* neighbouring floats with lo <= num/den < hi
RoundNearestEven(num, den) ==
    LET q == num \div den
        lo == q - (q % Ulp(q))
        hi == lo + Ulp(lo)
    IN  IF 2 * num < (lo + hi) * den THEN lo
        ELSE IF 2 * num > (lo + hi) * den THEN hi
        ELSE IF EvenSignificand(lo) THEN lo ELSE hi

FSub(a, b) == RoundNearestEven(a - b, 1)

FDiv(a, b) == RoundNearestEven(a * One, b)

Clamp(s) == IF s > One THEN One ELSE IF s < 0 THEN 0 ELSE s

SeqMax(s) == CHOOSE m \in Range(s) : \A x \in Range(s) : x <= m

SeqMin(s) == CHOOSE m \in Range(s) : \A x \in Range(s) : m <= x

score_normalisation_by_max(hypotheses) ==
    IF hypotheses = <<>> THEN <<>>
    ELSE LET raw_scores == [i \in DOMAIN hypotheses |-> Clamp(hypotheses[i].score)]
             max_s == SeqMax(raw_scores)
             min_s == SeqMin(raw_scores)
         IN  IF max_s = min_s
             THEN IF max_s > 0 THEN [i \in DOMAIN raw_scores |-> One] ELSE raw_scores
             ELSE [i \in DOMAIN raw_scores |-> FDiv(raw_scores[i], max_s)]

score_normalisation(hypotheses) ==
    IF hypotheses = <<>> THEN <<>>
    ELSE LET raw_scores == [i \in DOMAIN hypotheses |-> Clamp(hypotheses[i].score)]
             max_s == SeqMax(raw_scores)
             min_s == SeqMin(raw_scores)
         IN  IF max_s = min_s
             THEN IF max_s > 0 THEN [i \in DOMAIN raw_scores |-> One] ELSE raw_scores
             ELSE [i \in DOMAIN raw_scores |->
                     FDiv(FSub(raw_scores[i], min_s), FSub(max_s, min_s))]

FAdd(a, b) == RoundNearestEven(a + b, 1)

\* math.exp(-d) for a float d in [0, 1]: e^d is summed from its series in
\* units of 1/ExpScale and the quotient 1/e^d is rounded once
ExpScale == 65536

ExpTerms == 12

RECURSIVE ExpSeries(_, _, _)
ExpSeries(d, n, term) ==
    IF n > ExpTerms THEN 0
    ELSE term + ExpSeries(d, n + 1, (term * d) \div (One * n))

ExpOf(d) == RoundNearestEven(One * ExpScale, ExpSeries(d, 1, ExpScale))

\* math.exp(-d) for every distance d between two floats of [0, 1]
ExpTable == [d \in 0..One |-> ExpOf(d)]

ExpNeg(d) == ExpTable[d]

\* sum(values): the running total starts at 0 and is rounded after every
\* addition
RECURSIVE FSum(_)
FSum(values) ==
    IF values = <<>> THEN 0 ELSE FAdd(FSum(Front(values)), Last(values))

SoftmaxOf(exps, total) ==
    IF total = 0 THEN [i \in DOMAIN exps |-> 0]
    ELSE [i \in DOMAIN exps |-> FDiv(exps[i], total)]

SoftmaxExps(normalised_scores, max_input) ==
    [i \in DOMAIN normalised_scores |-> ExpNeg(FSub(max_input, normalised_scores[i]))]

\* total = sum(exps), computed once
SoftmaxTotal(exps) == The({SoftmaxOf(exps, total) : total \in {FSum(exps)}})

\* the mutant of softmax_confidence_adjustment: the exponentials are returned
\* without the division by their total
softmax_unscaled(normalised_scores) ==
    IF normalised_scores = <<>> THEN <<>>
    ELSE SoftmaxExps(normalised_scores, SeqMax(normalised_scores))

softmax_confidence_adjustment(normalised_scores) ==
    IF normalised_scores = <<>> THEN <<>>
    ELSE The({SoftmaxTotal(exps) :
                 exps \in {SoftmaxExps(normalised_scores,
                                       SeqMax(normalised_scores))}})

\* the float written 0.8
HighScore == RoundNearestEven(8 * One, 10)

RECURSIVE CountHigh(_)
CountHigh(hypotheses) ==
    IF hypotheses = <<>> THEN 0
    ELSE CountHigh(Front(hypotheses))
         + (IF Last(hypotheses).score >= HighScore THEN 1 ELSE 0)

\* the penalty factors, in hundredths
LengthFactor(n_events) ==
    IF n_events = 0 THEN 50
    ELSE IF n_events < 5 THEN 70
    ELSE IF n_events < 10 THEN 85
    ELSE 100

MultiFactor(num_high) == IF num_high > 1 THEN 90 ELSE 100

MultiFactorFromOne(num_high) == IF num_high >= 1 THEN 90 ELSE 100

\* the two results of confidence_penalty; final_conf is the product kept
\* exact, in units of 1/(One * 100 * 100)
Penalised(n_events, base, softmax, length_factor, num_high, multi_factor) ==
    [final_conf |-> softmax * length_factor * multi_factor,
     report |->
        [timeline_length |-> n_events,
         raw_primary_confidence |-> RoundDec(base, One, 100),
         softmax_primary_confidence |-> RoundDec(softmax, One, 100),
         timeline_length_penalty_factor |-> length_factor,
         multiple_high_hypotheses |-> num_high,
         multiple_high_penalty_factor |-> multi_factor,
         final_primary_confidence |->
             RoundDec(softmax * length_factor * multi_factor, One * 10000, 100)]]

\* the mutant of confidence_penalty: one high hypothesis is penalised already
confidence_penalty_from_one(hypotheses, events, base_primary_confidence, softmax_primary_confidence) ==
    Penalised(Len(events), base_primary_confidence, softmax_primary_confidence,
              LengthFactor(Len(events)), CountHigh(hypotheses),
              MultiFactorFromOne(CountHigh(hypotheses)))

confidence_penalty(hypotheses, events, base_primary_confidence, softmax_primary_confidence) ==
    Penalised(Len(events), base_primary_confidence, softmax_primary_confidence,
              LengthFactor(Len(events)), CountHigh(hypotheses),
              MultiFactor(CountHigh(hypotheses)))

\* the mutant of PrimaryIndex: the last index holding the maximum score
primary_index_last(hypotheses) ==
    CHOOSE i \in DOMAIN hypotheses :
        /\ \A j \in DOMAIN hypotheses : hypotheses[j].score <= hypotheses[i].score
        /\ \A j \in (i + 1)..Len(hypotheses) : hypotheses[j].score < hypotheses[i].score

\* max(range(len(hypotheses)), key=score): the first index holding the maximum
PrimaryIndex(hypotheses) ==
    CHOOSE i \in DOMAIN hypotheses :
        /\ \A j \in DOMAIN hypotheses : hypotheses[j].score <= hypotheses[i].score
        /\ \A j \in 1..(i - 1) : hypotheses[j].score < hypotheses[i].score

EmptyReport(timeline_length) ==
    [timeline_length |-> timeline_length,
     raw_primary_confidence |-> 0,
     softmax_primary_confidence |-> 0,
     timeline_length_penalty_factor |-> 0,
     multiple_high_hypotheses |-> 0,
     multiple_high_penalty_factor |-> 0,
     final_primary_confidence |-> 0]

\* what calibrate_hypotheses returns, and the list it was given as that list
\* is after the call
Calibrated(hypotheses, confidence, report, arg) ==
    [hypotheses |-> hypotheses, confidence |-> confidence, report |-> report,
     arg |-> arg]

\* item = dict(h) with normalised_score and calibrated_score assigned, to
\* three decimals
AttachItem(h, n, p) ==
    [f \in DOMAIN h \cup {"normalised_score", "calibrated_score"} |->
        IF f = "normalised_score" THEN RoundDec(n, One, 1000)
        ELSE IF f = "calibrated_score" THEN RoundDec(p, One, 1000)
        ELSE h[f]]

\* step 4
Attach(hypotheses, normalised, softmax_probs) ==
    [i \in DOMAIN hypotheses |->
        AttachItem(hypotheses[i], normalised[i], softmax_probs[i])]

CalibratedWith(hypotheses, normalised, softmax_probs, penalty) ==
    Calibrated(Attach(hypotheses, normalised, softmax_probs), penalty.final_conf,
               penalty.report, hypotheses)

CalibrateProbs(hypotheses, events, normalised, softmax_probs) ==
    CalibratedWith(hypotheses, normalised, softmax_probs,
                   confidence_penalty(hypotheses, events,
                                      hypotheses[PrimaryIndex(hypotheses)].score,
                                      softmax_probs[PrimaryIndex(hypotheses)]))

\* softmax_probs = softmax_confidence_adjustment(normalised), computed once
CalibrateNormalised(hypotheses, events, normalised) ==
    The({CalibrateProbs(hypotheses, events, normalised, softmax_probs) :
            softmax_probs \in {softmax_confidence_adjustment(normalised)}})

\* normalised = score_normalisation(hypotheses), computed once
CalibrateScores(hypotheses, events) ==
    The({CalibrateNormalised(hypotheses, events, normalised) :
            normalised \in {score_normalisation(hypotheses)}})

\* the mutant of calibrate_hypotheses: the empty report says 0 events
calibrate_hypotheses_blank(hypotheses, events) ==
    IF hypotheses = <<>> THEN Calibrated(<<>>, 0, EmptyReport(0), hypotheses)
    ELSE CalibrateScores(hypotheses, events)

InPlace(c) == [c EXCEPT !.arg = c.hypotheses]

\* the mutant of calibrate_hypotheses: item = h, the fields are assigned to
\* the hypotheses of the argument
calibrate_in_place(hypotheses, events) ==
    IF hypotheses = <<>>
    THEN Calibrated(<<>>, 0, EmptyReport(Len(events)), hypotheses)
    ELSE InPlace(CalibrateScores(hypotheses, events))

calibrate_hypotheses(hypotheses, events) ==
    IF hypotheses = <<>>
    THEN Calibrated(<<>>, 0, EmptyReport(Len(events)), hypotheses)
    ELSE CalibrateScores(hypotheses, events)

\* ------------------------------------- root_cause_agent.py: orchestration
\* What the external service does during one run of the pipeline: the reply
\* to the refinement prompt, the embedding of the query, the KB document whose
\* embedding fails (0: none), and the three narration calls.
Service(reply, qOut, failAt, contrastive, narrative, causal) ==
    [reply |-> reply, qOut |-> qOut, failAt |-> failAt,
     contrastive |-> contrastive, narrative |-> narrative, causal |-> causal]

NoAnalysis == <<>>

Ran(raised, analysis, sim) ==
    [raised |-> raised, analysis |-> analysis, global |-> sim.global,
     store |-> sim.store, called |-> sim.called, builds |-> sim.builds,
     embeds |-> sim.embeds]

\* float(score) of a score of two decimals: the nearest binary float
AsFloat(score) == RoundNearestEven(score * One, 100)

InFloats(refined) ==
    [i \in DOMAIN refined |-> [refined[i] EXCEPT !.score = AsFloat(@)]]

\* item = dict(h): each calibrated hypothesis holds the score of its refined
\* hypothesis as that one holds it
WithScoresOf(refined, cal) ==
    [cal EXCEPT !.hypotheses =
        [i \in DOMAIN refined |->
            [cal.hypotheses[i] EXCEPT !.score = refined[i].score]]]

\* step 5, the calibration layer: calibrate_hypotheses(refined, events)
CalibrationLayer(refined, events) ==
    The({WithScoresOf(refined, calibrate_hypotheses(hypotheses, events)) :
            hypotheses \in {InFloats(refined)}})

\* round(calibrated_confidence, 2), in hundredths
RoundedConfidence(calibrated_confidence) ==
    RoundDec(calibrated_confidence, One * 10000, 100)

\* the mutant of WithConfidence: the summary keeps the primary's raw score
summary_confidence_kept(incident_summary, calibrated_confidence) ==
    incident_summary

\* incident_summary["confidence"] = round(calibrated_confidence, 2)
WithConfidence(incident_summary, calibrated_confidence) ==
    [incident_summary EXCEPT !.confidence = RoundedConfidence(calibrated_confidence)]

\* next((r["score"] for r in refined if r["id"] == h["id"]), h["score"])
RawScore(refined, h) ==
    IF \E i \in DOMAIN refined : refined[i].id = h.id
    THEN refined[CHOOSE i \in DOMAIN refined :
                     /\ refined[i].id = h.id
                     /\ \A j \in 1..(i - 1) : refined[j].id # h.id].score
    ELSE h.score

ScoreEntry(refined, h) ==
    [id |-> h.id, title |-> Title(h.id), raw_score |-> RawScore(refined, h),
     normalised_score |-> h.normalised_score,
     calibrated_score |-> h.calibrated_score]

\* step 9, the top-level summary of the calibrated scores
CalibratedScores(refined, calibrated_hypotheses) ==
    [i \in DOMAIN calibrated_hypotheses |->
        ScoreEntry(refined, calibrated_hypotheses[i])]

\* steps 3 to 9 once their parts are known: the first part that raised ends
\* the run, otherwise the analysis is assembled
AnalysisOf(events, rule_based, ref, sim, summary, cal, contrastive, narrative, global, key, svc) ==
    IF ref.raised # None THEN Ran(ref.raised, NoAnalysis, NoGet(global))
    ELSE IF sim.raised # None THEN Ran(sim.raised, NoAnalysis, sim)
    ELSE IF contrastive.raised # None
         THEN Ran(contrastive.raised, NoAnalysis, sim)
    ELSE IF narrative.raised # None THEN Ran(narrative.raised, NoAnalysis, sim)
    ELSE Ran(None,
             [hypotheses |-> cal.hypotheses,
              llm_commentary |-> ref.commentary,
              rule_based |-> rule_based,
              similar_incidents |-> sim.results,
              incident_summary |-> summary,
              recommended_actions |-> _build_recommended_actions(summary),
              timeline_story |-> _build_timeline_story(events),
              incident_narrative |-> narrative.text,
              calibrated_scores |-> CalibratedScores(ref.hyps, cal.hypotheses),
              calibrated_confidence |-> summary.confidence,
              evidence_strength_report |-> cal.report,
              contrastive_explanations |-> contrastive.text,
              causal_graph |-> build_causal_graph(ref.hyps, summary, key,
                                                  svc.causal)],
             sim)

\* the calibration cal of step 5 and the summary it completes
AfterCalibration(events, rule_based, ref, sim, cal, global, key, svc) ==
    AnalysisOf(events, rule_based, ref, sim,
               WithConfidence(_infer_incident_summary(ref.hyps), cal.confidence),
               cal,
               generate_contrastive_explanations(ref.hyps, key, svc.contrastive),
               generate_incident_narrative(key, svc.narrative),
               global, key, svc)

\* from step 3 on, with the refinement ref of step 2
AfterRefinement(events, rule_based, ref, global, newOid, kb_files, key, svc) ==
    AfterCalibration(events, rule_based, ref,
                     find_similar_incidents(events, 3, global, newOid, kb_files,
                                            key, svc.qOut, svc.failAt,
                                            Sims(kb_files, 1)),
                     CalibrationLayer(ref.hyps, events),
                     global, key, svc)

\* from step 2 on, with the rule-based hypotheses of step 1
AfterRuleBased(events, rule_based, global, newOid, kb_files, key, svc) ==
    AfterRefinement(events, rule_based,
                    refine_root_cause_with_gemini(rule_based, key, svc.reply),
                    global, newOid, kb_files, key, svc)

\* generate_root_cause_analysis(events, use_gemini=True): the exception that
\* leaves it or the analysis it returns, and what became of the singleton.
\* The steps run in the source's order; the first one that raises ends it.
generate_root_cause_analysis(events, global, newOid, kb_files, key, svc) ==
    AfterRuleBased(events, generate_rule_based_hypotheses(events), global,
                   newOid, kb_files, key, svc)

\* ------------------------------------------- explain_hypothesis_agent.py
\* explain_hypothesis: an "error" object when no refined hypothesis has the
\* id, otherwise the explanation of the one that has
\* what an event's message holds when one of the words longer than three
\* letters of the hypothesis's title occurs in it
TitleKeyword(id) ==
    CASE id = "H1" -> "title:H1"
      [] id = "H2" -> "title:H2"
      [] id = "H3" -> "title:H3"
      [] id = "H4" -> "title:H4"
      [] id = "H5" -> "title:H5"
      [] OTHER -> "title:other"

\* any(k in msg for k in keywords)
MatchesTitle(e, id) == TitleKeyword(id) \in e.kw

Explanation(id, supporting, conflicting) ==
    [hypothesis_id |-> id, title |-> Title(id),
     supporting_evidence |-> supporting, conflicting_evidence |-> conflicting]

\* the mutant of explain_hypothesis: the loop does not "continue" after a
\* supporting event
explain_hypothesis_no_continue(events, refined, hypothesis_id) ==
    IF ~HasId(refined, hypothesis_id)
    THEN [error |-> "Hypothesis not found.", hypothesis_id |-> hypothesis_id]
    ELSE Explanation(hypothesis_id,
                     SelectSeq(events, LAMBDA e : MatchesTitle(e, hypothesis_id)),
                     events)

explain_hypothesis(events, refined, hypothesis_id) ==
    IF ~HasId(refined, hypothesis_id)
    THEN [error |-> "Hypothesis not found.", hypothesis_id |-> hypothesis_id]
    ELSE Explanation(hypothesis_id,
                     SelectSeq(events, LAMBDA e : MatchesTitle(e, hypothesis_id)),
                     SelectSeq(events, LAMBDA e : ~MatchesTitle(e, hypothesis_id)))

\* --------------------------------------------------------- rag_agent.py
\* the entries of _RAW_KB
RawKB == 3

\* _ensure_kb_embeddings_loaded, the entries in okSet being the ones whose
\* embedding succeeds: the cache afterwards, and whether the loop ran
_ensure_kb_embeddings_loaded(cache, key, okSet) ==
    IF cache # <<>> THEN [cache |-> cache, ran |-> 0]
    ELSE [cache |-> SelectSeq([i \in 1..RawKB |-> i],
                              LAMBDA i : key /\ i \in okSet),
          ran |-> 1]

\* one result entry of the in-memory path: the cosine rounded to thousandths
RagEntry(match) ==
    [id |-> match.meta, similarity |-> RoundDec(match.score, CosUnit, 1000)]

RagResults(matches) == [i \in DOMAIN matches |-> RagEntry(matches[i])]

\* find_similar_incidents of the in-memory path: it never raises; sims are
\* the cosines of the query with the entries of _RAW_KB
rag_find_similar_incidents(events, top_k, cache, key, okSet, qOut, sims) ==
    LET e == _ensure_kb_embeddings_loaded(cache, key, okSet)
    IN  IF events = <<>> THEN [results |-> <<>>, cache |-> cache, ran |-> 0]
        ELSE IF e.cache = <<>> \/ get_text_embedding(key, qOut) # None
             THEN [results |-> <<>>, cache |-> e.cache, ran |-> e.ran]
        ELSE [results |-> RagResults(TopMatches(SortBySimDesc(e.cache, sims),
                                                sims, top_k)),
              cache |-> e.cache, ran |-> e.ran]

\* ------------------------------------------------------ routes/analyze.py
EmptyDict == <<>>

Response(route, status, body) ==
    [route |-> route, status |-> status, body |-> body]

\* the result object analyze_csv assembles
AnalyzeResult(events, analysis) ==
    [timeline_preview |-> SubSeq(events, 1, Min(20, Len(events))),
     root_cause_hypotheses |-> analysis.hypotheses,
     llm_commentary |-> analysis.llm_commentary,
     rule_based_hypotheses |-> analysis.rule_based,
     similar_incidents |-> analysis.similar_incidents,
     incident_summary |-> analysis.incident_summary,
     recommended_actions |-> analysis.recommended_actions,
     incident_narrative |-> analysis.incident_narrative,
     contrastive_explanations |-> analysis.contrastive_explanations,
     causal_graph |-> analysis.causal_graph]

\* the mutant of StoreLatest: the new result is merged into the cached one
\* key by key, the preview first and the rest left for later
StoreLatestMerged(old, result) ==
    IF old = EmptyDict THEN result
    ELSE [old EXCEPT !.timeline_preview = result.timeline_preview]

\* LATEST_RESULT = result
StoreLatest(old, result) == result

\* the mutant of get_last_analysis: the emptiness test is dropped
get_last_analysis_unchecked(cached) ==
    Response("GET analyze", 200, cached)

\* get_last_analysis
get_last_analysis(cached) ==
    IF cached = EmptyDict
    THEN Response("GET analyze", 404, [message |-> "No previous analysis found."])
    ELSE Response("GET analyze", 200, cached)

Handled(response, cached, run) ==
    [response |-> response, cached |-> cached, global |-> run.global,
     store |-> run.store, called |-> run.called, builds |-> run.builds,
     embeds |-> run.embeds]

\* the answer of analyze_csv, given the timeline t and the pipeline's run
AnalyzeAnswer(up, t, run, cached, global) ==
    IF ~up.readable
    THEN Handled(Response("POST analyze", 400, "Could not read CSV file"),
                 cached, NoGet(global))
    ELSE IF t.raised = "ValueError"
    THEN Handled(Response("POST analyze", 400,
                          "CSV must contain at least timestamp and message fields."),
                 cached, NoGet(global))
    ELSE IF t.raised # None
    THEN Handled(Response("POST analyze", 500, t.raised), cached, NoGet(global))
    ELSE IF run.raised # None
    THEN Handled(Response("POST analyze", 500, run.raised), cached, run)
    ELSE Handled(Response("POST analyze", 200, AnalyzeResult(t.events, run.analysis)),
                 StoreLatest(cached, AnalyzeResult(t.events, run.analysis)), run)

AnalyzeTimeline(up, t, cached, global, newOid, kb_files, key, svc) ==
    AnalyzeAnswer(up, t,
                  generate_root_cause_analysis(t.events, global, newOid, kb_files,
                                               key, svc),
                  cached, global)

\* analyze_csv from the point where the body has been read: the response, the
\* cache afterwards and what the pipeline did to the singleton
analyze_csv(up, cached, global, newOid, kb_files, key, svc) ==
    AnalyzeTimeline(up, build_timeline_from_dataframe(up), cached, global,
                    newOid, kb_files, key, svc)

\* -------------------------------------------- routes/explain_hypothesis.py
Payload(events, hypothesis_id) == [events |-> events, hypothesis_id |-> hypothesis_id]

\* the answer of explain_selected_hypothesis, given the pipeline's run and
\* the cache it leaves
ExplainAnswer(payload, run, cached, after, global) ==
    IF payload.events = <<>> \/ payload.hypothesis_id = None
    THEN Handled(Response("POST explain", 400,
                          "Both 'events' and 'hypothesis_id' are required."),
                 cached, NoGet(global))
    ELSE IF run.raised # None
    THEN Handled(Response("POST explain", 500, run.raised), cached, run)
    ELSE Handled(Response("POST explain", 200,
                          explain_hypothesis(payload.events,
                                             run.analysis.hypotheses,
                                             payload.hypothesis_id)),
                 after, run)

ExplainSaving(payload, run, cached, global) ==
    ExplainAnswer(payload, run, cached,
                  AnalyzeResult(payload.events, run.analysis), global)

\* the mutant of explain_selected_hypothesis: it keeps what it computed as
\* the latest result
explain_saves_latest(payload, cached, global, newOid, kb_files, key, svc) ==
    ExplainSaving(payload,
                  generate_root_cause_analysis(payload.events, global, newOid,
                                               kb_files, key, svc),
                  cached, global)

\* explain_selected_hypothesis
explain_selected_hypothesis(payload, cached, global, newOid, kb_files, key, svc) ==
    ExplainAnswer(payload,
                  generate_root_cause_analysis(payload.events, global, newOid,
                                               kb_files, key, svc),
                  cached, cached, global)

\* ------------------------------------------------------ routes/predict.py
predict ==
    Response("POST predict", 200, [message |-> "Predict endpoint working"])

\* ------------------------------------------------------------- the process
VARIABLES
    apiKey,         \* settings.gemini_api_key is a non-empty string
    kbFiles,        \* the JSON files in backend/kb/incidents
    LATEST_RESULT,  \* routes/analyze.py: the cached result, {} at start
    vector_store,   \* vector_store.py: _vector_store
    KB_EMBEDDINGS,  \* rag_agent.py: _KB_EMBEDDINGS
    pending,        \* POST analyze requests suspended in "await file.read()"
    nreq,           \* requests and calls accepted so far
    lastResp,       \* the response sent last
    lastOk,         \* history: the result of the last POST analyze answered 200
    lastGet,        \* history: the call of get_global_incident_store in the last step
    firstStore,     \* history: the first built store a call returned (0: none)
    vsBuildRuns,    \* history: runs of build_from_kb
    vsAssigned,     \* history: assignments to _vector_store
    ragBuildRuns,   \* history: runs of the loop of _ensure_kb_embeddings_loaded
    ragFilled,      \* history: times _KB_EMBEDDINGS went from empty to filled
    overlapped,     \* history: POST analyze answered 200 while another was suspended
    input,          \* the arguments of the function under check
    output,         \* its result
    pc              \* "serve" in the process; "call"/"done" in a function check

vars ==
    <<apiKey, kbFiles, LATEST_RESULT, vector_store, KB_EMBEDDINGS, pending, nreq,
      lastResp, lastOk, lastGet, firstStore, vsBuildRuns, vsAssigned,
      ragBuildRuns, ragFilled, overlapped, input, output, pc>>

\* the uploads, model replies and service behaviours the process is run on
UploadUnreadable == Upload(FALSE, {}, <<>>)

UploadNoMessage == Upload(TRUE, {"timestamp"}, <<Row(1, TRUE, {})>>)

UploadBadCell == Upload(TRUE, RequiredColumns, <<Row(1, FALSE, {})>>)

UploadHeaderOnly == Upload(TRUE, RequiredColumns, <<>>)

UploadTimeouts ==
    Upload(TRUE, RequiredColumns \cup {"level"},
           <<Row(2, TRUE, {"H1"}), Row(1, TRUE, {"H1", "H2"})>>)

UploadInfra ==
    Upload(TRUE, RequiredColumns,
           <<Row(NaT, TRUE, {"H3"}), Row(5, TRUE, {"H4", "H5"})>>)

Uploads == {UploadUnreadable, UploadNoMessage, UploadTimeouts, UploadInfra}

ReplyJson == Reply(FALSE, <<"{", "refined:rev", "commentary", "}">>)

ReplyFenced == Reply(FALSE, <<"prose", "{", "refined:same", "}", "prose">>)

ReplyProse == Reply(FALSE, <<"prose">>)

ReplyFails == Reply(TRUE, <<>>)

Services ==
    {Service(ReplyJson, "ok", 0, "text", "text", "text"),
     Service(ReplyFenced, "ok", 0, "error", "empty", "error"),
     Service(ReplyProse, "fail", 0, "empty", "text", "text"),
     Service(ReplyFails, "ok", 1, "text", "error", "empty")}

Payloads ==
    {Payload(build_timeline_from_dataframe(UploadTimeouts).events, "H1"),
     Payload(build_timeline_from_dataframe(UploadInfra).events, "H9"),
     Payload(<<>>, "H1")}

NoResponse == Response("none", 0, <<>>)

NoCall == [called |-> FALSE, returned |-> 0, builds |-> 0, embeds |-> 0]

Init ==
    /\ apiKey \in BOOLEAN
    /\ kbFiles \in 0..MaxKB
    /\ LATEST_RESULT = EmptyDict
    /\ vector_store = NoStore
    /\ KB_EMBEDDINGS = <<>>
    /\ pending = [up \in Uploads |-> 0]
    /\ nreq = 0
    /\ lastResp = NoResponse
    /\ lastOk = EmptyDict
    /\ lastGet = NoCall
    /\ firstStore = 0
    /\ vsBuildRuns = 0
    /\ vsAssigned = 0
    /\ ragBuildRuns = 0
    /\ ragFilled = 0
    /\ overlapped = 0
    /\ input = <<>>
    /\ output = <<>>
    /\ pc = "serve"

\* what a finished handler leaves behind in the singleton and its history
Settle(h) ==
    /\ vector_store' = h.global
    /\ lastGet' = [called |-> h.called, returned |-> h.store.oid,
                   builds |-> h.builds, embeds |-> h.embeds]
    /\ firstStore' = IF firstStore = 0 /\ h.called THEN h.store.oid ELSE firstStore
    /\ vsBuildRuns' = vsBuildRuns + h.builds
    /\ vsAssigned' = vsAssigned + (IF h.global # vector_store THEN 1 ELSE 0)

\* POST {prefix}/analyze/ up to "await file.read()", where the handler yields
AnalyzeRead ==
    /\ pc = "serve" /\ nreq < MaxRequests
    /\ \E up \in Uploads : pending' = [pending EXCEPT ![up] = @ + 1]
    /\ nreq' = nreq + 1
    /\ lastGet' = NoCall
    /\ UNCHANGED <<apiKey, kbFiles, LATEST_RESULT, vector_store, KB_EMBEDDINGS,
                   lastResp, lastOk, firstStore, vsBuildRuns, vsAssigned,
                   ragBuildRuns, ragFilled, overlapped, input, output, pc>>

\* the state after analyze_csv answered h to the upload up
AnalyzeDone(up, h) ==
    /\ pending[up] > 0
    /\ pending' = [pending EXCEPT ![up] = @ - 1]
    /\ LATEST_RESULT' = h.cached
    /\ lastResp' = h.response
    /\ lastOk' = IF h.response.status = 200 THEN h.response.body ELSE lastOk
    /\ overlapped' = IF h.response.status = 200 /\
                         (\E o \in Uploads : pending'[o] > 0)
                      THEN overlapped + 1 ELSE overlapped
    /\ Settle(h)

\* POST {prefix}/analyze/ from there to its response: nothing in it awaits
AnalyzeRun ==
    /\ pc = "serve"
    /\ \E up \in Uploads, svc \in Services :
          AnalyzeDone(up, analyze_csv(up, LATEST_RESULT, vector_store,
                                      vsBuildRuns + 1, kbFiles, apiKey, svc))
    /\ UNCHANGED <<apiKey, kbFiles, KB_EMBEDDINGS, nreq, ragBuildRuns, ragFilled,
                   input, output, pc>>

\* GET {prefix}/analyze/
GetLast ==
    /\ pc = "serve" /\ nreq < MaxRequests
    /\ nreq' = nreq + 1
    /\ lastResp' = get_last_analysis(LATEST_RESULT)
    /\ lastGet' = NoCall
    /\ UNCHANGED <<apiKey, kbFiles, LATEST_RESULT, vector_store, KB_EMBEDDINGS,
                   pending, lastOk, firstStore, vsBuildRuns, vsAssigned,
                   ragBuildRuns, ragFilled, overlapped, input, output, pc>>

\* the state after explain_selected_hypothesis answered h
ExplainDone(h) ==
    /\ LATEST_RESULT' = h.cached
    /\ lastResp' = h.response
    /\ Settle(h)

\* POST /explain-hypothesis/: the handler never awaits
Explain ==
    /\ pc = "serve" /\ nreq < MaxRequests
    /\ nreq' = nreq + 1
    /\ \E payload \in Payloads, svc \in Services :
          ExplainDone(explain_selected_hypothesis(payload, LATEST_RESULT,
                                                  vector_store, vsBuildRuns + 1,
                                                  kbFiles, apiKey, svc))
    /\ UNCHANGED <<apiKey, kbFiles, KB_EMBEDDINGS, pending, lastOk, ragBuildRuns,
                   ragFilled, overlapped, input, output, pc>>

\* POST {prefix}/predict/predict
Predict ==
    /\ pc = "serve" /\ nreq < MaxRequests
    /\ nreq' = nreq + 1
    /\ lastResp' = predict
    /\ lastGet' = NoCall
    /\ UNCHANGED <<apiKey, kbFiles, LATEST_RESULT, vector_store, KB_EMBEDDINGS,
                   pending, lastOk, firstStore, vsBuildRuns, vsAssigned,
                   ragBuildRuns, ragFilled, overlapped, input, output, pc>>

\* a call of rag_agent.find_similar_incidents
RagFind ==
    /\ pc = "serve" /\ nreq < MaxRequests
    /\ nreq' = nreq + 1
    /\ \E payload \in Payloads, okSet \in SUBSET (1..RawKB), qOut \in EmbedOutcomes :
          LET f == rag_find_similar_incidents(payload.events, 3, KB_EMBEDDINGS,
                                              apiKey, okSet, qOut, Sims(RawKB, 1))
          IN  /\ KB_EMBEDDINGS' = f.cache
              /\ ragBuildRuns' = ragBuildRuns + f.ran
              /\ ragFilled' = ragFilled +
                    (IF KB_EMBEDDINGS = <<>> /\ f.cache # <<>> THEN 1 ELSE 0)
              /\ lastResp' = Response("rag", 0, f.results)
    /\ lastGet' = NoCall
    /\ UNCHANGED <<apiKey, kbFiles, LATEST_RESULT, vector_store, pending, lastOk,
                   firstStore, vsBuildRuns, vsAssigned, overlapped, input, output, pc>>

Next ==
    \/ AnalyzeRead
    \/ AnalyzeRun
    \/ GetLast
    \/ Explain
    \/ Predict
    \/ RagFind

Spec == Init /\ [][Next]_vars

\* ------------------------------------------------- checks of one function
\* A function is checked on every input of a bounded set: the process stands
\* still, Init draws the arguments and the one action applies the function.
Idle ==
    /\ apiKey = FALSE
    /\ kbFiles = 0
    /\ LATEST_RESULT = EmptyDict
    /\ vector_store = NoStore
    /\ KB_EMBEDDINGS = <<>>
    /\ pending = [up \in Uploads |-> 0]
    /\ nreq = 0
    /\ lastResp = NoResponse
    /\ lastOk = EmptyDict
    /\ lastGet = NoCall
    /\ firstStore = 0
    /\ vsBuildRuns = 0
    /\ vsAssigned = 0
    /\ ragBuildRuns = 0
    /\ ragFilled = 0
    /\ overlapped = 0
    /\ output = <<>>
    /\ pc = "call"

Return(value) ==
    /\ pc = "call"
    /\ output' = value
    /\ pc' = "done"
    /\ UNCHANGED <<apiKey, kbFiles, LATEST_RESULT, vector_store, KB_EMBEDDINGS,
                   pending, nreq, lastResp, lastOk, lastGet, firstStore,
                   vsBuildRuns, vsAssigned, ragBuildRuns, ragFilled, overlapped,
                   input>>

Timelines ==
    {build_timeline_from_dataframe(up).events :
       up \in {UploadHeaderOnly, UploadTimeouts, UploadInfra}}

Replies ==
    {ReplyJson, ReplyFenced, ReplyProse, ReplyFails,
     Reply(FALSE, <<"{", "refined:str", "}">>),
     Reply(FALSE, <<"{", "refined:empty", "}">>)}

\* generate_root_cause_analysis on every behaviour of the service
PipelineInputs ==
    [events : Timelines, key : BOOLEAN, kbFiles : 0..MaxKB, built : BOOLEAN,
     reply : Replies, qOut : EmbedOutcomes, failAt : 0..MaxKB,
     contrastive : GenOutcomes, narrative : GenOutcomes, causal : GenOutcomes]

GlobalOf(in) ==
    IF in.built /\ in.kbFiles > 0
    THEN Store(1, TRUE, [i \in 1..in.kbFiles |-> i])
    ELSE NoStore

InitPipeline == Idle /\ input \in PipelineInputs

CallPipeline ==
    Return(generate_root_cause_analysis(
               input.events, GlobalOf(input), 2, input.kbFiles, input.key,
               Service(input.reply, input.qOut, input.failAt, input.contrastive,
                       input.narrative, input.causal)))

SpecPipeline == InitPipeline /\ [][CallPipeline]_vars

\* find_similar_incidents of the vector-store path
SimilarInputs ==
    [events : Timelines, top_k : 0..3, key : BOOLEAN, kbFiles : 0..MaxKB,
     built : BOOLEAN, qOut : EmbedOutcomes, failAt : 0..MaxKB]

InitSimilar == Idle /\ input \in SimilarInputs

CallSimilar ==
    Return(find_similar_incidents(input.events, input.top_k, GlobalOf(input), 2,
                                  input.kbFiles, input.key, input.qOut,
                                  input.failAt, Sims(input.kbFiles, 1)))

SpecSimilar == InitSimilar /\ [][CallSimilar]_vars

\* refine_root_cause_with_gemini on every reply of at most MaxText tokens; no
\* reply is asked for when the list is empty or the key is not set
RuleBasedLists == {<<>>} \cup {generate_rule_based_hypotheses(t) : t \in Timelines}

RefineInputs(n) ==
    {[rule_based |-> rb, key |-> k, reply |-> r] :
       rb \in RuleBasedLists, k \in BOOLEAN,
       r \in {ReplyFails} \cup {Reply(FALSE, t) : t \in SeqsUpTo(Tokens, n)}}

InitRefine ==
    /\ Idle
    /\ input \in RefineInputs(MaxText)
    /\ (input.rule_based = <<>> \/ ~input.key) => input.reply = ReplyFails

CallRefine ==
    Return(refine_root_cause_with_gemini(input.rule_based, input.key, input.reply))

SpecRefine == InitRefine /\ [][CallRefine]_vars

\* generate_contrastive_explanations on every list of at most MaxRefined
\* hypotheses
RefinedLists(n) ==
    SeqsUpTo({Hyp(id, sc) : id \in Range(HypIds), sc \in {0, 50, 100}}, n)

ContrastiveInputs(n) == [refined : RefinedLists(n), key : BOOLEAN, gen : GenOutcomes]

InitContrastive == Idle /\ input \in ContrastiveInputs(MaxRefined)

CallContrastive ==
    Return(generate_contrastive_explanations(input.refined, input.key, input.gen))

SpecContrastive == InitContrastive /\ [][CallContrastive]_vars

\* score_normalisation on every list of at most MaxHyps hypotheses with
\* scores in [0, 1]
ScoreLists(n) == SeqsUpTo(Floats, n)

NormaliseInputs(n) ==
    {[i \in DOMAIN sc |-> Hyp(HypIds[i], sc[i])] : sc \in ScoreLists(n)}

InitNormalise == Idle /\ input \in NormaliseInputs(MaxHyps)

CallNormalise == Return(score_normalisation(input))

SpecNormalise == InitNormalise /\ [][CallNormalise]_vars

\* softmax_confidence_adjustment on every list of at most MaxHyps normalised
\* scores
InitSoftmax == Idle /\ input \in ScoreLists(MaxHyps)

CallSoftmax == Return(softmax_confidence_adjustment(input))

SpecSoftmax == InitSoftmax /\ [][CallSoftmax]_vars

\* calibrate_hypotheses on every list of at most MaxRefined hypotheses and
\* every timeline of at most MaxEvents events
EventLists(n) == {[i \in 1..k |-> [time |-> i, kw |-> {}]] : k \in 0..n}

CalibrateInputs(n, m) == [hypotheses : NormaliseInputs(n), events : EventLists(m)]

InitCalibrate == Idle /\ input \in CalibrateInputs(MaxRefined, MaxEvents)

CallCalibrate == Return(calibrate_hypotheses(input.hypotheses, input.events))

SpecCalibrate == InitCalibrate /\ [][CallCalibrate]_vars

\* assign_phase on every row index of every table of at most MaxTotal rows
PhaseInputs(n) == [index : 0..n, total : 0..n]

InitPhase ==
    /\ Idle
    /\ input \in PhaseInputs(MaxTotal)
    /\ input.total > 0 => input.index < input.total

CallPhase == Return(assign_phase(input.index, input.total))

SpecPhase == InitPhase /\ [][CallPhase]_vars

\* analyze_csv on every sample upload, with and without a cached result
UploadNoTimestamp ==
    Upload(TRUE, {"message", "level"}, <<Row(NaT, TRUE, {"H1"})>>)

UploadNoColumns == Upload(TRUE, {"level"}, <<Row(NaT, TRUE, {})>>)

AllUploads ==
    Uploads \cup {UploadBadCell, UploadHeaderOnly, UploadNoTimestamp, UploadNoColumns}

CachedResult ==
    AnalyzeResult(build_timeline_from_dataframe(UploadTimeouts).events,
                  generate_root_cause_analysis(
                      build_timeline_from_dataframe(UploadTimeouts).events,
                      NoStore, 1, 1, TRUE,
                      Service(ReplyJson, "ok", 0, "text", "text", "text")).analysis)

AnalyzeInputs ==
    [up : AllUploads, cached : {EmptyDict, CachedResult}, key : BOOLEAN,
     kbFiles : 0..MaxKB, built : BOOLEAN, svc : Services]

InitAnalyze == Idle /\ input \in AnalyzeInputs

CallAnalyze ==
    Return(analyze_csv(input.up, input.cached, GlobalOf(input), 2, input.kbFiles,
                       input.key, input.svc))

SpecAnalyze == InitAnalyze /\ [][CallAnalyze]_vars

\* _build_deterministic_chain on every set of hypothesis ids, listed in
\* either direction, and every primary cause id
ChainIds == <<"H1", "H2", "H3", "H4", "H5", "H9">>

ChainLists ==
    UNION {{[i \in DOMAIN ids |-> Hyp(ids[i], 50)],
            Reverse([i \in DOMAIN ids |-> Hyp(ids[i], 50)])} :
             ids \in {SelectSeq(ChainIds, LAMBDA id : id \in chosen) :
                        chosen \in SUBSET Range(ChainIds)}}

ChainInputs ==
    [refined : ChainLists, primary_cause_id : Range(ChainIds) \cup {"H7", None}]

InitChain == Idle /\ input \in ChainInputs

CallChain ==
    Return(_build_deterministic_chain(input.refined,
                                      [primary_cause_id |-> input.primary_cause_id]))

SpecChain == InitChain /\ [][CallChain]_vars

\* explain_hypothesis on every timeline of events whose messages hold, or do
\* not hold, words of the titles of H1 and H2
ExplainEvents ==
    {[time |-> 1, kw |-> kw, phase |-> "trigger"] :
       kw \in SUBSET {"title:H1", "title:H2"}}

ExplainInputs(n) ==
    [events : SeqsUpTo(ExplainEvents, n),
     refined : {<<>>, [i \in DOMAIN HypIds |-> Hyp(HypIds[i], 50)]},
     hypothesis_id : {"H1", "H2", "H9"}]

InitExplain == Idle /\ input \in ExplainInputs(MaxTimeline)

CallExplain ==
    Return(explain_hypothesis(input.events, input.refined, input.hypothesis_id))

SpecExplain == InitExplain /\ [][CallExplain]_vars

\* find_similar_incidents of both paths on every requested top_k >= 0 and
\* every cosine of the query with each knowledge-base entry
TopKInputs ==
    [events : Timelines, top_k : 0..(RawKB + 1), kbFiles : 1..RawKB,
     built : BOOLEAN, okSet : SUBSET (1..RawKB), sims : [1..RawKB -> CosValues]]

InitTopK == Idle /\ input \in TopKInputs

CallVectorStore ==
    Return([path |-> "vector store",
            entries |-> input.kbFiles,
            results |-> find_similar_incidents(
                            input.events, input.top_k,
                            IF input.built
                            THEN Store(1, TRUE, [i \in 1..input.kbFiles |-> i])
                            ELSE NoStore,
                            2, input.kbFiles, TRUE, "ok", 0, input.sims).results])

CallInMemory ==
    Return([path |-> "in memory",
            entries |-> Cardinality(input.okSet),
            results |-> rag_find_similar_incidents(
                            input.events, input.top_k, <<>>, TRUE, input.okSet,
                            "ok", input.sims).results])

NextTopK == CallVectorStore \/ CallInMemory

SpecTopK == InitTopK /\ [][NextTopK]_vars

\* _build_recommended_actions on every category, severity and confidence (in
\* hundredths) a summary can carry; None is the absent category
Categories ==
    {"performance", "dependency", "deployment", "infra", "customer-impact",
     "unknown", None}

SummaryInputs ==
    [severity : {"critical", "high", "medium", "low", "unknown"},
     primary_cause_id : {None}, primary_cause_category : Categories,
     confidence : {0, 25, 50, 80, 100}]

InitActions == Idle /\ input \in SummaryInputs

CallActions == Return(_build_recommended_actions(input))

SpecActions == InitActions /\ [][CallActions]_vars

\* generate_rule_based_hypotheses on every timeline of events whose
\* messages hold no keyword, a keyword of H1, or keywords of H2 and H5
SignalEvents ==
    {[time |-> 1, kw |-> kw, phase |-> "trigger"] :
       kw \in {{}, {"H1"}, {"H2", "H5"}}}

InitRuleBased == Idle /\ input \in SeqsUpTo(SignalEvents, MaxSignals)

CallRuleBased == Return(generate_rule_based_hypotheses(input))

SpecRuleBased == InitRuleBased /\ [][CallRuleBased]_vars

\* _infer_incident_summary on every refined list of hypotheses with the five
\* ids or another one
SummaryLists(n) ==
    SeqsUpTo({Hyp(id, sc) : id \in Range(HypIds) \cup {"H9"}, sc \in {0, 50}}, n)

InitSummary == Idle /\ input \in SummaryLists(MaxRefined)

CallSummary == Return(_infer_incident_summary(input))

SpecSummary == InitSummary /\ [][CallSummary]_vars

\* calibrate_hypotheses on lists of hypotheses that carry, besides id and
\* score, a title or a calibrated_score of their own
WithField(h, name, value) ==
    [f \in DOMAIN h \cup {name} |-> IF f = name THEN value ELSE h[f]]

FieldedHyps ==
    UNION {{Hyp(id, sc), WithField(Hyp(id, sc), "title", Title(id)),
            WithField(Hyp(id, sc), "calibrated_score", 7)} :
             id \in {"H1", "H2"}, sc \in {0, One \div 2, One}}

InitAttach == Idle /\ input \in SeqsUpTo(FieldedHyps, MaxRefined)

CallAttach == Return(calibrate_hypotheses(input, <<>>))

SpecAttach == InitAttach /\ [][CallAttach]_vars

\* build_timeline_from_dataframe on every table with the required columns
\* and at most MaxTimeline rows, in any order, stamps that do not parse and
\* cells that are no strings included
TableRows ==
    {Row(ts, isStr, kw) : ts \in {NaT, 1, 2}, isStr \in BOOLEAN,
                          kw \in {{}, {"H1"}}}

InitTimeline ==
    Idle /\ input \in {Upload(TRUE, RequiredColumns, rows) :
                         rows \in SeqsUpTo(TableRows, MaxTimeline)}

CallTimeline == Return(build_timeline_from_dataframe(input))

SpecTimeline == InitTimeline /\ [][CallTimeline]_vars

\* classify_event on every message made of these words, every source and
\* every level
Words == {"ALERT", "warning", "error", "Customer", "restart", "autoscaling", "login"}

ClassifyInputs ==
    [message : SUBSET Words, source : {"", "API", "db"},
     level : {"", "critical", "error", "info"}]

InitClassify == Idle /\ input \in ClassifyInputs

CallClassify == Return(classify_event(input.message, input.source, input.level))

SpecClassify == InitClassify /\ [][CallClassify]_vars

\* _build_timeline_story on every timeline of at most MaxTimeline events, in
\* any of the three phases or in none
StoryEvents ==
    {[time |-> t, kw |-> {}, phase |-> ph] :
       t \in {1, 2}, ph \in {"detection", "mitigation", "resolution", "unknown"}}

InitStory == Idle /\ input \in SeqsUpTo(StoryEvents, MaxTimeline)

CallStory == Return(_build_timeline_story(input))

SpecStory == InitStory /\ [][CallStory]_vars

\* calibrate_hypotheses and _infer_incident_summary on the same refined list,
\* with scores inside and outside [0, 1]
WideScores ==
    {-(One \div 2), 0, One \div 4, One \div 2, One, One + One \div 2, 2 * One}

WideLists(n) ==
    {[i \in DOMAIN sc |-> Hyp(HypIds[i], sc[i])] : sc \in SeqsUpTo(WideScores, n)}

InitPrimary == Idle /\ input \in WideLists(MaxHyps)

CallPrimary ==
    Return([calibration |-> calibrate_hypotheses(input, <<>>),
            summary |-> _infer_incident_summary(input)])

SpecPrimary == InitPrimary /\ [][CallPrimary]_vars

\* generate_root_cause_analysis from step 3 on, on every refined list of at
\* most MaxRefined hypotheses the refinement can hand over and the timeline of
\* every table of at most MaxEvents rows, every call to the service succeeding
ScoredLists(n) ==
    SeqsUpTo({Hyp(id, sc) : id \in {"H1", "H2", "H9"}, sc \in {0, 33, 80, 100}}, n)

RowsTimeline(k) ==
    build_timeline_from_dataframe(
        Upload(TRUE, RequiredColumns,
               [i \in 1..k |-> Row(i, TRUE, IF i = 1 THEN {"H1"} ELSE {})])).events

InitConfidence ==
    Idle /\ input \in [refined : ScoredLists(MaxRefined), rows : 0..MaxEvents]

CallConfidence ==
    Return(AfterRefinement(
               RowsTimeline(input.rows),
               generate_rule_based_hypotheses(RowsTimeline(input.rows)),
               Refined(None, input.refined, "llm commentary"),
               NoStore, 2, 1, TRUE,
               Service(ReplyJson, None, 0, None, None, None)))

SpecConfidence == InitConfidence /\ [][CallConfidence]_vars

\* ------------------------------------------------------------------ claims
NoneSuspended == \A up \in Uploads : pending[up] = 0

\* C1: a GET analyze answers 404 with the "No previous analysis found."
\* message exactly when no POST analyze has been answered 200 before it, and
\* otherwise answers the result of the last POST analyze answered 200.
C1_GetServesLatest ==
    lastResp.route = "GET analyze" =>
        /\ lastResp.status = 404 <=> lastOk = EmptyDict
        /\ lastResp.status = 404 =>
               lastResp.body = [message |-> "No previous analysis found."]
        /\ lastResp.status # 404 => lastResp.status = 200 /\ lastResp.body = lastOk

C1_Witness ==
    /\ lastResp.route = "GET analyze"
    /\ lastResp.status = 200
    /\ lastResp.body = lastOk
    /\ nreq = MaxRequests

\* C2: LATEST_RESULT changes only in the step in which a POST analyze is
\* answered 200: a POST analyze answered 400 or ended by an exception, a POST
\* explain-hypothesis and a POST predict leave it as it was.
C2_OnlySuccessfulAnalyzeWrites ==
    [][LATEST_RESULT' # LATEST_RESULT =>
          /\ nreq' = nreq
          /\ lastResp'.route = "POST analyze"
          /\ lastResp'.status = 200]_vars

C2_Witness ==
    /\ LATEST_RESULT # EmptyDict
    /\ lastResp.route = "POST analyze"
    /\ lastResp.status = 500

\* the results one POST analyze can return in this process
\* the bodies of the 200 answers of POST analyze in a process of n KB
\* documents, the key set or not
WholeResultsOf(n, key) ==
    LET answers == {analyze_csv(up, EmptyDict, g, 1, n, key, svc).response :
                      up \in Uploads, svc \in Services,
                      g \in {NoStore, Store(1, TRUE, [i \in 1..n |-> i])}}
    IN  {a.body : a \in {x \in answers : x.status = 200}}

\* the same for every process, computed once
WholeResultsTable ==
    {[kbFiles |-> n, apiKey |-> key, results |-> WholeResultsOf(n, key)] :
        n \in 0..MaxKB, key \in BOOLEAN}

WholeResults ==
    (CHOOSE t \in WholeResultsTable :
        t.kbFiles = kbFiles /\ t.apiKey = apiKey).results

\* C3: whatever the interleaving of POST analyze requests, LATEST_RESULT is
\* empty or is the whole result of the request that wrote it last, never a
\* mixture of two requests' fields.
C3_CacheIsOneWholeResult ==
    /\ LATEST_RESULT = lastOk
    /\ LATEST_RESULT # EmptyDict => LATEST_RESULT \in WholeResults

C3_Witness ==
    /\ overlapped >= 1
    /\ NoneSuspended
    /\ lastResp.route = "POST analyze"
    /\ lastResp.status = 200
    /\ LATEST_RESULT = lastResp.body

\* C8: once a call of get_global_incident_store has returned a built store,
\* every later call returns that same store object, runs no build and makes
\* no KB embedding call, and the singleton stays as it is.
C8_BuiltStoreIsReused ==
    [][(firstStore # 0 /\ lastGet'.called) =>
          /\ lastGet'.returned = firstStore
          /\ lastGet'.builds = 0
          /\ lastGet'.embeds = 0
          /\ vector_store' = vector_store]_vars

C8_Witness ==
    /\ firstStore # 0
    /\ lastGet.called
    /\ lastGet.returned = firstStore
    /\ lastGet.builds = 0
    /\ vsBuildRuns >= 1
    /\ nreq >= 2

\* C9 as stated: the build of the vector-store singleton and the build of the
\* in-memory KB embedding cache each run at most once in the life of the
\* process, first attempts in which embedding fails included.
C9_BuildRunsAtMostOnce == vsBuildRuns <= 1 /\ ragBuildRuns <= 1

\* C9 as amended: the singleton is set to a built store at most once and the
\* embedding cache goes from empty to filled at most once; a build that fails,
\* or that embeds no entry, leaves them unset and the next caller runs the
\* build again.
C9_FilledAtMostOnce ==
    /\ vsAssigned <= 1
    /\ ragFilled <= 1
    /\ vsAssigned = 1 <=> is_built(vector_store)
    /\ ragFilled = 1 <=> KB_EMBEDDINGS # <<>>
    /\ vsAssigned = 0 => vector_store = NoStore

C9_Witness ==
    /\ vsBuildRuns >= 2
    /\ vsAssigned = 1
    /\ ragBuildRuns >= 1
    /\ ragFilled = 1

\* C4 as stated: whatever the model and embedding service do, the pipeline
\* returns an analysis and raises nothing.
C4_PipelineNeverRaises == pc = "done" => output.raised = None

\* C5 as stated: find_similar_incidents of the vector-store path raises
\* nothing, and returns an empty list when the query embedding fails or the
\* store cannot be built.
C5_SimilarDegradesToEmpty ==
    pc = "done" =>
        /\ output.raised = None
        /\ (get_text_embedding(input.key, input.qOut) # None
              \/ (~input.built /\ input.failAt \in 1..input.kbFiles)
              \/ input.kbFiles = 0)
             => output.results = <<>>

Diagnostics ==
    {"No hypotheses provided.", "Gemini not configured",
     "Gemini exception occurred", "Invalid refined format."}

\* the cases C6 names: the service is not configured, the call fails, no JSON
\* object is parsed from the reply, or its "refined" value is no list
RefineFails(in) ==
    \/ ~in.key
    \/ in.reply.fails
    \/ _extract_json(in.reply.text).raised # None
    \/ _extract_json(in.reply.text).data.refined = "refined:str"

\* C6: refine_root_cause_with_gemini raises nothing; when the service is not
\* configured, the call fails, no JSON object is parsed or "refined" is no
\* list, it returns the rule-based list unchanged with a diagnostic commentary.
C6_RefineNeverRaises ==
    pc = "done" =>
        /\ output.raised = None
        /\ RefineFails(input) =>
              /\ output.hyps = input.rule_based
              /\ output.commentary \in Diagnostics

C6_Witness ==
    /\ pc = "done"
    /\ input.key
    /\ ~input.reply.fails
    /\ _extract_json(input.reply.text).raised = "JSONDecodeError"
    /\ JsonMatch(input.reply.text)[2] = "refined:rev"
    /\ output.hyps = input.rule_based
    /\ output.commentary = "Gemini exception occurred"

\* C7: generate_contrastive_explanations answers the fixed "No hypotheses
\* available" message for an empty list whether or not the key is set;
\* otherwise it raises when the key is not set; otherwise a failing or empty
\* generation call gives a diagnostic string and nothing is raised.
C7_ContrastivePrecedence ==
    pc = "done" =>
        IF input.refined = <<>>
        THEN output = Said(None, "No hypotheses available for contrastive explanation.")
        ELSE IF ~input.key THEN output.raised # None
        ELSE /\ output.raised = None
             /\ input.gen = "error" => output.text = "Contrastive explanation error"
             /\ input.gen = "empty" =>
                    output.text = "Contrastive explanation generation failed."

C7_Witness ==
    /\ pc = "done"
    /\ input.refined = <<>>
    /\ ~input.key
    /\ output.raised = None

NotAllEqual(hyps) ==
    /\ hyps # <<>>
    /\ \E i, j \in DOMAIN hyps : hyps[i].score # hyps[j].score

IsMaxOf(hyps, i) == \A j \in DOMAIN hyps : hyps[j].score <= hyps[i].score

IsMinOf(hyps, i) == \A j \in DOMAIN hyps : hyps[i].score <= hyps[j].score

Normalised ==
    /\ \A i \in DOMAIN input :
          /\ output[i] \in 0..One
          /\ IsMaxOf(input, i) => output[i] = One
          /\ IsMinOf(input, i) => output[i] = 0

\* C10 as stated: for a non-empty list of scores in [0,1], not all equal,
\* the values lie in [0,1], a strictly smaller score gets a strictly smaller
\* value, every maximum gets 1.0 and every minimum 0.0.
C10_StrictOrderKept ==
    (pc = "done" /\ NotAllEqual(input)) =>
        /\ Normalised
        /\ \A i, j \in DOMAIN input :
              input[i].score < input[j].score => output[i] < output[j]

\* C10: for a non-empty list of scores in [0,1], not all equal, the values
\* lie in [0,1], a smaller score never gets a larger value (two different
\* scores can get the same value), equal scores get equal values, every
\* maximum gets 1.0 and every minimum 0.0.
C10_OrderNeverInverted ==
    (pc = "done" /\ NotAllEqual(input)) =>
        /\ Normalised
        /\ \A i, j \in DOMAIN input :
              input[i].score <= input[j].score => output[i] <= output[j]

C10_Witness ==
    /\ pc = "done"
    /\ Len(input) = 3
    /\ input[1].score < input[2].score
    /\ input[3].score < input[1].score
    /\ input[3].score > 0
    /\ output[3] = 0
    /\ output[1] = output[2]
    /\ output[2] = One

RECURSIVE Sum(_)
Sum(values) == IF values = <<>> THEN 0 ELSE Sum(Front(values)) + Last(values)

NumHigh(hyps) == Cardinality({i \in DOMAIN hyps : hyps[i].score >= HighScore})

PrimarySoftmax(hyps) ==
    softmax_confidence_adjustment(score_normalisation(hyps))[PrimaryIndex(hyps)]

\* C12: for a non-empty hypothesis list the timeline-length factor is 0.5
\* for 0 events, 0.7 for 1 to 4, 0.85 for 5 to 9 and 1.0 for 10 or more; the
\* multi-hypothesis factor is 0.9 exactly when more than one raw score is at
\* least 0.8, else 1.0; the final confidence is the primary hypothesis's
\* softmax value times both factors; multiple_high_hypotheses counts the raw
\* scores of at least 0.8.
C12_PenaltyFactors ==
    (pc = "done" /\ input.hypotheses # <<>>) =>
        LET n == Len(input.events)
            r == output.report
        IN  /\ n = 0 => r.timeline_length_penalty_factor = 50
            /\ n \in 1..4 => r.timeline_length_penalty_factor = 70
            /\ n \in 5..9 => r.timeline_length_penalty_factor = 85
            /\ n >= 10 => r.timeline_length_penalty_factor = 100
            /\ r.multiple_high_hypotheses = NumHigh(input.hypotheses)
            /\ r.multiple_high_penalty_factor =
                  (IF NumHigh(input.hypotheses) > 1 THEN 90 ELSE 100)
            /\ output.confidence =
                  PrimarySoftmax(input.hypotheses)
                    * r.timeline_length_penalty_factor
                    * r.multiple_high_penalty_factor

C12_Witness ==
    /\ pc = "done"
    /\ Len(input.hypotheses) = 2
    /\ Len(input.events) = 10
    /\ output.report.multiple_high_hypotheses = 2
    /\ output.report.multiple_high_penalty_factor = 90
    /\ output.report.timeline_length_penalty_factor = 100
    /\ output.confidence > 0

\* C13: calibrate_hypotheses of an empty hypothesis list returns an empty
\* list, confidence 0.0 and a report whose fields are all zero except
\* timeline_length, which is the number of events passed in.
C13_EmptyCalibration ==
    (pc = "done" /\ input.hypotheses = <<>>) =>
        /\ output.hypotheses = <<>>
        /\ output.confidence = 0
        /\ output.report.timeline_length = Len(input.events)
        /\ \A f \in DOMAIN output.report \ {"timeline_length"} : output.report[f] = 0

C13_Witness ==
    /\ pc = "done"
    /\ input.hypotheses = <<>>
    /\ Len(input.events) = 7
    /\ output.report.timeline_length = 7

PhaseRank(phase) ==
    IF phase = "detection" THEN 1 ELSE IF phase = "mitigation" THEN 2 ELSE 3

\* C14: for total >= 1 and index i in 0..total-1 the phase is detection when
\* i/total < 0.2, mitigation when 0.2 <= i/total < 0.8 and resolution when
\* i/total >= 0.8 (for 10 events: 0-1, 2-7, 8-9); it is unknown when total is
\* 0; the phase of the next index is never an earlier one.
C14_PhaseByRatio ==
    pc = "done" =>
        LET i == input.index
            t == input.total
        IN  /\ t = 0 => output = "unknown"
            /\ (t >= 1 /\ 5 * i < t) => output = "detection"
            /\ (t >= 1 /\ 5 * i >= t /\ 5 * i < 4 * t) => output = "mitigation"
            /\ (t >= 1 /\ 5 * i >= 4 * t) => output = "resolution"
            /\ (t = 10 /\ i \in 0..1) => output = "detection"
            /\ (t = 10 /\ i \in 2..7) => output = "mitigation"
            /\ (t = 10 /\ i \in 8..9) => output = "resolution"
            /\ (t >= 1 /\ i + 1 < t) =>
                  PhaseRank(output) <= PhaseRank(assign_phase(i + 1, t))

C14_Witness ==
    /\ pc = "done"
    /\ input.total = 10
    /\ input.index = 2
    /\ output = "mitigation"

\* C15: when the uploaded table lacks the timestamp or the message column,
\* build_timeline_from_dataframe raises the invalid-input error, no timeline
\* is produced, the pipeline is not run (the store is not asked for, nothing
\* is built or embedded, the cache is left alone) and POST analyze answers
\* 400 with the message naming both fields.
C15_MissingColumnIs400 ==
    (pc = "done" /\ input.up.readable
       /\ ~({"timestamp", "message"} \subseteq input.up.columns)) =>
        /\ build_timeline_from_dataframe(input.up) =
              [raised |-> "ValueError", events |-> <<>>]
        /\ output.response =
              Response("POST analyze", 400,
                       "CSV must contain at least timestamp and message fields.")
        /\ ~output.called /\ output.builds = 0 /\ output.embeds = 0
        /\ output.global = GlobalOf(input)
        /\ output.cached = input.cached

C15_Witness ==
    /\ pc = "done"
    /\ input.up = UploadNoTimestamp
    /\ input.key /\ input.kbFiles > 0
    /\ input.cached # EmptyDict
    /\ output.response.status = 400

CascadeRank(id) ==
    IF id = "H2" THEN 1 ELSE IF id = "H1" THEN 2 ELSE IF id = "H4" THEN 3
    ELSE IF id = "H5" THEN 4 ELSE 0

\* C16: when the primary cause id is among the refined hypotheses, the
\* cascade holds the ids among H2, H1, H4, H5 that are present, in that order
\* and once each, with any other primary id in front; the first entry has no
\* caused_by and every other one is caused by the entry before it. When the
\* primary id is not found, root_cause and root_cause_id are absent and the
\* cascade is empty.
C16_CascadeOrder ==
    pc = "done" =>
        LET present == {input.refined[i].id : i \in DOMAIN input.refined}
            primary == input.primary_cause_id
            c == output.cascade
        IN  IF primary \in present
            THEN /\ output.root_cause_id = primary
                 /\ output.root_cause # None
                 /\ {c[i].hypothesis_id : i \in DOMAIN c}
                      = (present \cap {"H2", "H1", "H4", "H5"}) \cup {primary}
                 /\ \A i, j \in DOMAIN c :
                       i < j => CascadeRank(c[i].hypothesis_id)
                                  < CascadeRank(c[j].hypothesis_id)
                 /\ \A i \in DOMAIN c :
                       c[i].caused_by = IF i = 1 THEN None
                                        ELSE c[i - 1].hypothesis_id
                 /\ (present = {"H1", "H2", "H4", "H5"} /\ primary = "H5") =>
                       [i \in DOMAIN c |-> c[i].hypothesis_id]
                         = <<"H2", "H1", "H4", "H5">>
            ELSE /\ output.root_cause = None
                 /\ output.root_cause_id = None
                 /\ c = <<>>

C16_Witness ==
    /\ pc = "done"
    /\ input.primary_cause_id = "H3"
    /\ Len(input.refined) = 5
    /\ input.refined[1].id = "H5"
    /\ Len(output.cascade) = 5
    /\ output.cascade[1].hypothesis_id = "H3"
    /\ output.cascade[2].hypothesis_id = "H2"

\* the events at the positions of a set, in the order of the timeline
RECURSIVE Pick(_, _)
Pick(events, positions) ==
    IF events = <<>> THEN <<>>
    ELSE Pick(Front(events), positions)
           \o (IF Len(events) \in positions THEN <<Last(events)>> ELSE <<>>)

C18_TopKSortedBounded ==
    pc = "done" =>
        /\ Len(output.results) <= input.top_k
        /\ Len(output.results) <= output.entries
        /\ \A i, j \in DOMAIN output.results :
              i < j => output.results[i].similarity >= output.results[j].similarity
        /\ output.path = "vector store" =>
              \A i \in DOMAIN output.results :
                 output.results[i].similarity \in 0..1000

C18_Witness ==
    /\ pc = "done"
    /\ output.path = "vector store"
    /\ input.top_k = 2
    /\ input.kbFiles = 3
    /\ Len(output.results) = 2
    /\ output.results[1].id = 3
    /\ output.results[1].similarity = 1000
    /\ output.results[2].similarity = 500
    /\ input.sims[1] = -CosUnit - 4

\* C19: whatever the confidence, the action list ends with A5 then A6, and
\* what precedes them is the one category action (A1 dependency, A2 infra,
\* A3 deployment, A4 performance) or nothing for customer-impact, unknown and
\* an absent category.
C19_ActionsByCategory ==
    pc = "done" =>
        LET category == input.primary_cause_category
            n == Len(output)
        IN  /\ n >= 2
            /\ output[n - 1] = "A5"
            /\ output[n] = "A6"
            /\ category = "dependency" => SubSeq(output, 1, n - 2) = <<"A1">>
            /\ category = "infra" => SubSeq(output, 1, n - 2) = <<"A2">>
            /\ category = "deployment" => SubSeq(output, 1, n - 2) = <<"A3">>
            /\ category = "performance" => SubSeq(output, 1, n - 2) = <<"A4">>
            /\ category \in {"customer-impact", "unknown", None} => n = 2

C19_Witness ==
    /\ pc = "done"
    /\ input.primary_cause_category = "infra"
    /\ input.confidence = 0
    /\ output = <<"A2", "A5", "A6">>

\* the events whose message holds a keyword of the category
Hits(events, cat) == Cardinality({i \in DOMAIN events : cat \in events[i].kw})

FiveSortedInRange ==
    /\ Len(output) = 5
    /\ \A k \in DOMAIN HypIds :
          Cardinality({i \in DOMAIN output : output[i].id = HypIds[k]}) = 1
    /\ \A i \in DOMAIN output : output[i].score \in 0..100
    /\ \A i, j \in DOMAIN output : i < j => output[i].score >= output[j].score

\* C20 as stated: five hypotheses H1..H5 once each, in non-increasing order
\* of score, every score in [0, 1] and equal to the fraction of the events
\* that hold a keyword of the category (0 for the empty timeline).
C20_ScoreIsFraction ==
    pc = "done" =>
        /\ FiveSortedInRange
        /\ \A i \in DOMAIN output :
              IF input = <<>> THEN output[i].score = 0
              ELSE output[i].score * Len(input) = 100 * Hits(input, output[i].id)

\* C20: five hypotheses H1..H5 once each, in non-increasing order of score,
\* every score in [0, 1] and equal to the fraction of the events that hold a
\* keyword of the category rounded to two decimals, so within half a
\* hundredth of it (0 for the empty timeline).
C20_ScoreIsRoundedFraction ==
    pc = "done" =>
        /\ FiveSortedInRange
        /\ \A i \in DOMAIN output :
              IF input = <<>> THEN output[i].score = 0
              ELSE 2 * Abs(output[i].score * Len(input)
                             - 100 * Hits(input, output[i].id)) <= Len(input)

C20_Witness ==
    /\ pc = "done"
    /\ Len(input) = 3
    /\ Hits(input, "H1") = 1
    /\ Hits(input, "H5") = 2
    /\ output[1] = Hyp("H2", 67)
    /\ output[2] = Hyp("H5", 67)
    /\ output[3] = Hyp("H1", 33)

\* C21: primary_cause_id is the id of the first hypothesis of the refined
\* list that has the maximum score, primary_cause_category is its image
\* under H1 -> performance, H2 -> dependency, H3 -> deployment, H4 -> infra,
\* H5 -> customer-impact, any other id -> unknown; for an empty list the
\* severity is unknown, the three primary-cause fields are absent and the
\* confidence is 0.
C21_PrimaryIsFirstMaximum ==
    pc = "done" =>
        IF input = <<>>
        THEN /\ output.severity = "unknown"
             /\ output.primary_cause_id = None
             /\ output.primary_cause_title = None
             /\ output.primary_cause_category = None
             /\ output.confidence = 0
        ELSE \E i \in DOMAIN input :
                /\ \A j \in DOMAIN input : input[j].score <= input[i].score
                /\ \A j \in 1..(i - 1) : input[j].score < input[i].score
                /\ output.primary_cause_id = input[i].id
                /\ output.primary_cause_category =
                     (CASE input[i].id = "H1" -> "performance"
                        [] input[i].id = "H2" -> "dependency"
                        [] input[i].id = "H3" -> "deployment"
                        [] input[i].id = "H4" -> "infra"
                        [] input[i].id = "H5" -> "customer-impact"
                        [] OTHER -> "unknown")

C21_Witness ==
    /\ pc = "done"
    /\ input = <<Hyp("H9", 50), Hyp("H2", 50)>>
    /\ output.primary_cause_id = "H9"
    /\ output.primary_cause_category = "unknown"

\* C22: a POST /explain-hypothesis/ whose hypothesis_id matches no hypothesis
\* of the analysis computed for it is answered 4xx with a message, never
\* with a successful response: no 200 answer of the route carries the
\* "not found" error object.
C22_UnknownIdIs4xx ==
    (lastResp.route = "POST explain" /\ lastResp.status = 200)
        => "error" \notin DOMAIN lastResp.body

SameShape ==
    /\ Len(output.hypotheses) = Len(input)
    /\ output.arg = input
    /\ \A i \in DOMAIN input :
          /\ {"normalised_score", "calibrated_score"} \subseteq DOMAIN output.hypotheses[i]
          /\ output.hypotheses[i].id = input[i].id
          /\ output.hypotheses[i].score = input[i].score

C24_TimelineOfParsedRows ==
    (pc = "done" /\ output.raised = None) =>
        LET ev == output.events
            n == Len(ev)
        IN  /\ n = Cardinality({j \in DOMAIN input.rows : input.rows[j].ts # NaT})
            /\ \A t \in {1, 2}, kw \in {{}, {"H1"}} :
                  Cardinality({i \in DOMAIN ev : ev[i].time = t /\ ev[i].kw = kw})
                    = Cardinality({j \in DOMAIN input.rows :
                                     input.rows[j].ts = t /\ input.rows[j].kw = kw})
            /\ \A i \in DOMAIN ev : ev[i].time # NaT
            /\ \A i, j \in DOMAIN ev : i < j => ev[i].time <= ev[j].time
            /\ \A i \in DOMAIN ev :
                  ev[i].phase = IF 5 * (i - 1) < n THEN "detection"
                                ELSE IF 5 * (i - 1) < 4 * n THEN "mitigation"
                                ELSE "resolution"

C24_Witness ==
    /\ pc = "done"
    /\ output.raised = None
    /\ Len(input.rows) = 4
    /\ input.rows[1].ts = 2
    /\ input.rows[2].ts = NaT
    /\ input.rows[3].ts = 1
    /\ Len(output.events) = 3
    /\ output.events[1].time = 1
    /\ output.events[3].phase = "mitigation"

\* the rules of classify_event that match an input, by rank: 1 alert,
\* 2 warning, 3 error, 4 customer, 5 infra, 6 the source or unknown
RulesMatching(in) ==
    {r \in 1..6 :
       \/ r = 1 /\ ("ALERT" \in in.message \/ in.level = "critical")
       \/ r = 2 /\ "warning" \in in.message
       \/ r = 3 /\ ("error" \in in.message \/ in.level = "error")
       \/ r = 4 /\ "Customer" \in in.message
       \/ r = 5 /\ ({"restart", "autoscaling"} \cap in.message # {})
       \/ r = 6}

RuleResult(r, in) ==
    CASE r = 1 -> "alert"
      [] r = 2 -> "warning"
      [] r = 3 -> "error"
      [] r = 4 -> "customer"
      [] r = 5 -> "infra"
      [] OTHER -> IF in.source = "" THEN "unknown"
                  ELSE IF in.source = "API" THEN "api" ELSE in.source

\* C25: the event type is the result of the earliest rule that matches, in
\* the order alert (message has 'alert' or level is critical), warning,
\* error (message has 'error' or level is error), customer, infra
\* ('restart' or 'scal'), and last the lower-cased source, or unknown for an
\* empty source.
C25_EarliestRuleWins ==
    pc = "done" =>
        \E r \in RulesMatching(input) :
           /\ \A q \in RulesMatching(input) : r <= q
           /\ output = RuleResult(r, input)

C25_Witness ==
    /\ pc = "done"
    /\ input.message = {"warning", "error", "autoscaling"}
    /\ input.level = "error"
    /\ input.source = "API"
    /\ output = "warning"

\* the positions of the events of a phase
InPhase(events, ph) == {i \in DOMAIN events : events[i].phase = ph}

\* a phase's summary is the fixed sentence when the phase has no events and
\* otherwise a sentence of its first and its last event
PhaseSummarised(events, ph, summary) ==
    IF InPhase(events, ph) = {}
    THEN summary = [text |-> "No explicit <phase> events recorded.", phase |-> ph]
    ELSE LET lo == CHOOSE i \in InPhase(events, ph) : \A j \in InPhase(events, ph) : i <= j
             hi == CHOOSE i \in InPhase(events, ph) : \A j \in InPhase(events, ph) : j <= i
         IN  /\ summary.text # ""
             /\ summary.phase = ph
             /\ summary.text # "No explicit <phase> events recorded."
             /\ summary.first_time = events[lo].time
             /\ lo # hi => summary.last_time = events[hi].time

PhasesCounted(events, counts) ==
    /\ counts.total = Len(events)
    /\ counts.detection = Cardinality(InPhase(events, "detection"))
    /\ counts.mitigation = Cardinality(InPhase(events, "mitigation"))
    /\ counts.resolution = Cardinality(InPhase(events, "resolution"))

\* C26 as stated: for every timeline, the empty one included, each phase
\* without events is summarised by the fixed sentence, each other phase by a
\* sentence of its first and last event, and the counts are the numbers of
\* events in all and per phase.
C26_StoryOfEveryTimeline ==
    pc = "done" =>
        /\ PhaseSummarised(input, "detection", output.detection)
        /\ PhaseSummarised(input, "mitigation", output.mitigation)
        /\ PhaseSummarised(input, "resolution", output.resolution)
        /\ PhasesCounted(input, output.counts)

\* C26: the same for every timeline that is not empty; for the empty
\* timeline the three summaries are empty strings and the four counts are 0.
C26_StoryOfNonEmptyTimeline ==
    pc = "done" =>
        IF input = <<>>
        THEN /\ output.detection = [text |-> ""]
             /\ output.mitigation = [text |-> ""]
             /\ output.resolution = [text |-> ""]
             /\ PhasesCounted(input, output.counts)
        ELSE /\ PhaseSummarised(input, "detection", output.detection)
             /\ PhaseSummarised(input, "mitigation", output.mitigation)
             /\ PhaseSummarised(input, "resolution", output.resolution)
             /\ PhasesCounted(input, output.counts)

C26_Witness ==
    /\ pc = "done"
    /\ Len(input) = 4
    /\ input[1].phase = "unknown"
    /\ input[2].phase = "mitigation"
    /\ input[2].time = 2
    /\ input[3].phase = "detection"
    /\ input[4].phase = "mitigation"
    /\ input[4].time = 1
    /\ output.mitigation.first_time = 2
    /\ output.mitigation.last_time = 1
    /\ output.resolution.text = "No explicit <phase> events recorded."
    /\ output.counts.total = 4

\* the objects of a text: from a "{" to the next "}" with members only
\* between them
WellFormedAt(text, a, b) ==
    /\ a < b
    /\ text[a] = "{"
    /\ text[b] = "}"
    /\ \A i \in (a + 1)..(b - 1) : text[i] \in MemberTokens

Objects(text) ==
    {ab \in (DOMAIN text) \X (DOMAIN text) : WellFormedAt(text, ab[1], ab[2])}

FirstObject(text) ==
    CHOOSE ab \in Objects(text) : \A cd \in Objects(text) : ab[1] <= cd[1]

\* C27: when the reply's text holds a well-formed JSON object whose
\* "refined" member is a list, refinement returns that list and the
\* object's commentary, whatever surrounds the object, text with braces
\* after it included; the object used is the first well-formed one.
C27_FirstObjectIsUsed ==
    (/\ pc = "done"
     /\ input.rule_based # <<>>
     /\ input.key
     /\ ~input.reply.fails
     /\ Objects(input.reply.text) # {}) =>
        LET ab == FirstObject(input.reply.text)
            obj == JsonLoads(SubSeq(input.reply.text, ab[1], ab[2]))
        IN  obj.refined \in {"refined:same", "refined:rev", "refined:empty"} =>
               /\ output.hyps = RefinedValue(obj.refined, input.rule_based)
               /\ output.commentary = IF obj.commentary THEN "llm commentary" ELSE ""

\* C28: for a non-empty refined list the hypothesis calibration takes as
\* primary is the one the summary names as primary_cause_id, the first one
\* with the maximum raw score, and no hypothesis of the output has a larger
\* calibrated_score than it, also when scores lie outside [0, 1].
C28_SamePrimary ==
    (pc = "done" /\ input # <<>>) =>
        LET p == PrimaryIndex(input)
            cal == output.calibration.hypotheses
        IN  /\ input[p].id = output.summary.primary_cause_id
            /\ \A j \in DOMAIN input : input[j].score <= input[p].score
            /\ \A j \in 1..(p - 1) : input[j].score < input[p].score
            /\ cal[p].id = output.summary.primary_cause_id
            /\ \A j \in DOMAIN cal : cal[j].calibrated_score <= cal[p].calibrated_score

C28_Witness ==
    /\ pc = "done"
    /\ Len(input) = 3
    /\ input[1].score = One \div 2
    /\ input[2].score = 2 * One
    /\ input[3].score = 2 * One
    /\ output.summary.primary_cause_id = "H2"
    /\ output.calibration.hypotheses[2].calibrated_score
         > output.calibration.hypotheses[1].calibrated_score
    /\ output.calibration.hypotheses[2].normalised_score = 1000

\* C29: in every result generate_root_cause_analysis returns,
\* calibrated_confidence, incident_summary.confidence and the report's
\* final_primary_confidence are one value in [0, 1], and calibrated_scores has
\* one entry per returned hypothesis, in the same order, with that
\* hypothesis's id and the score of a refined hypothesis of that id as
\* raw_score.
C29_OneConfidenceAndScores ==
    (pc = "done" /\ output.raised = None) =>
        LET a == output.analysis
        IN  /\ a.calibrated_confidence = a.incident_summary.confidence
            /\ a.calibrated_confidence
                   = a.evidence_strength_report.final_primary_confidence
            /\ a.calibrated_confidence \in 0..100
            /\ Len(a.hypotheses) = Len(input.refined)
            /\ Len(a.calibrated_scores) = Len(a.hypotheses)
            /\ \A i \in DOMAIN a.hypotheses :
                  /\ a.hypotheses[i].id = input.refined[i].id
                  /\ a.calibrated_scores[i].id = a.hypotheses[i].id
                  /\ \E j \in DOMAIN input.refined :
                        /\ input.refined[j].id = a.hypotheses[i].id
                        /\ a.calibrated_scores[i].raw_score = input.refined[j].score

C29_Witness ==
    /\ pc = "done"
    /\ output.raised = None
    /\ Len(input.refined) = 2
    /\ input.refined[1].id # input.refined[2].id
    /\ input.refined[1].score = 33
    /\ input.refined[2].score = 100
    /\ input.rows = 5
    /\ output.analysis.calibrated_confidence > 0
    /\ output.analysis.calibrated_confidence # input.refined[2].score
    /\ output.analysis.calibrated_scores[1].raw_score = 33

\* a build of a new store that fails leaves the store as it was constructed,
\* and search on that store raises as not built
FailedBuildKeepsStore(store) ==
    \A failAt \in 0..MaxKB :
        LET b == build_from_kb(store, kbFiles, apiKey, failAt)
        IN  b.raised # None =>
              /\ b.store = store
              /\ search(b.store, Sims(kbFiles, 1), 3).raised = "RuntimeError"

\* C30: when the build of the vector store fails (no KB document, or the
\* embedding of a document raises), the store's fields are as they were and
\* the singleton stays unset, so search still fails as not built; every call
\* to get_global_incident_store made while the singleton is unset runs the
\* build again, and the singleton never holds a store that is not built.
C30_FailedBuildLeavesUnset ==
    [][/\ (lastGet'.called /\ lastGet'.returned = 0) =>
             /\ lastGet'.builds = 1
             /\ vector_store = NoStore
             /\ vector_store' = NoStore
             /\ search(vector_store', Sims(kbFiles, 1), 3).raised = "RuntimeError"
             /\ FailedBuildKeepsStore(Store(nreq + 1, FALSE, <<>>))
       /\ (vector_store = NoStore /\ lastGet'.called) => lastGet'.builds = 1
       /\ vector_store' # NoStore => is_built(vector_store')]_vars

C30_Witness ==
    /\ vsBuildRuns >= 2
    /\ vsAssigned = 1
    /\ lastGet.called
    /\ lastGet.builds = 1
    /\ lastGet.returned # 0
    /\ lastGet.embeds = kbFiles
    /\ is_built(vector_store)

====
